---------------------------- MODULE Spec2Model ----------------------------
(***************************************************************************)
(* Model of src/logic.py (inventory sync v02): the normalizer, the markup  *)
(* table loader, the duplicate validator, the master availability builder, *)
(* the inventory reconciler, the cost/price engine and the change log.     *)
(*                                                                         *)
(* Representation.                                                         *)
(*  - A text is a sequence of one-character strings, so that the string    *)
(*    functions (strip, upper, re.sub, lstrip, replace) are computed       *)
(*    character by character.                                              *)
(*  - A cell of a table is a text, or NaN for a missing value (pandas      *)
(*    reads an empty field as NaN; row.get of an absent column gives       *)
(*    None, which pd.isna treats alike).  A number the code stores into a  *)
(*    cell is kept as the text str() gives for it, which is what           *)
(*    clean_numeric reads back (float(str(value)...)).                     *)
(*  - A float is an integer count of hundredths (8.00 is 800, the markup   *)
(*    1.75 is 175).  The texts of the model carry at most two decimals.    *)
(***************************************************************************)
EXTENDS Integers, Sequences, FiniteSets, TLC

\* ==========================================================================
\* Characters and texts
\* ==========================================================================

LowerLetters ==
    <<"a","b","c","d","e","f","g","h","i","j","k","l","m",
      "n","o","p","q","r","s","t","u","v","w","x","y","z">>

UpperLetters ==
    <<"A","B","C","D","E","F","G","H","I","J","K","L","M",
      "N","O","P","Q","R","S","T","U","V","W","X","Y","Z">>

DigitChars == <<"0","1","2","3","4","5","6","7","8","9">>

Range(s) == { s[k] : k \in DOMAIN s }

\* str.upper / str.lower on one character
UpperChar(c) ==
    IF \E k \in DOMAIN LowerLetters : LowerLetters[k] = c
    THEN UpperLetters[CHOOSE k \in DOMAIN LowerLetters : LowerLetters[k] = c]
    ELSE c

LowerChar(c) ==
    IF \E k \in DOMAIN UpperLetters : UpperLetters[k] = c
    THEN LowerLetters[CHOOSE k \in DOMAIN UpperLetters : UpperLetters[k] = c]
    ELSE c

upper(s) == [k \in DOMAIN s |-> UpperChar(s[k])]

lower(s) == [k \in DOMAIN s |-> LowerChar(s[k])]

IsSpace(c) == c \in {" ", "\t"}

RECURSIVE lstrip(_)
lstrip(s) ==
    IF s # <<>> /\ IsSpace(Head(s)) THEN lstrip(Tail(s)) ELSE s

RECURSIVE rstrip(_)
rstrip(s) ==
    IF s # <<>> /\ IsSpace(s[Len(s)]) THEN rstrip(SubSeq(s, 1, Len(s) - 1)) ELSE s

\* str.strip()
strip(s) == rstrip(lstrip(s))

\* the characters of s that satisfy Keep, in order
RECURSIVE FilterChars(_, _)
FilterChars(s, keep) ==
    IF s = <<>> THEN <<>>
    ELSE IF Head(s) \in keep THEN <<Head(s)>> \o FilterChars(Tail(s), keep)
    ELSE FilterChars(Tail(s), keep)

\* str.replace(a, b) for single characters
replace(s, a, b) == [k \in DOMAIN s |-> IF s[k] = a THEN b ELSE s[k]]

\* str.replace(a, '') for a single character
RECURSIVE remove(_, _)
remove(s, a) ==
    IF s = <<>> THEN <<>>
    ELSE IF Head(s) = a THEN remove(Tail(s), a)
    ELSE <<Head(s)>> \o remove(Tail(s), a)

\* str.lstrip('0')
RECURSIVE lstrip_zeros(_)
lstrip_zeros(s) ==
    IF s # <<>> /\ Head(s) = "0" THEN lstrip_zeros(Tail(s)) ELSE s

\* a missing cell (NaN / None): the one value pd.isna accepts
NaN == <<"<NaN>">>

isna(v) == v = NaN

\* ==========================================================================
\* Normalizer
\* ==========================================================================

\* re.sub(r'[^A-Z0-9]', '', s): the characters that are kept
CodeChars == Range(UpperLetters) \cup Range(DigitChars)

\* faulty variant: the leading zeros are stripped before the other characters
clean_code_zeros_first(code) ==
    IF isna(code) \/ code = <<>> THEN <<>>
    ELSE FilterChars(lstrip_zeros(upper(strip(code))), CodeChars)

clean_code(code) ==
    IF isna(code) \/ code = <<>> THEN <<>>
    ELSE lstrip_zeros(FilterChars(upper(strip(code)), CodeChars))

clean_trademark(trademark) ==
    IF isna(trademark) \/ trademark = <<>> THEN <<>>
    ELSE upper(strip(trademark))

\* --------------------------------------------------------------------------
\* float(text): the decimal texts [+-]digits[.digits] with at most two
\* decimals are parsed to hundredths; float() strips surrounding whitespace.
\* Any other text of the model is one float() rejects (ValueError).
\* A float NaN (float() of a missing cell) is kind "nan".
\* --------------------------------------------------------------------------

IsDigits(s) == \A k \in DOMAIN s : s[k] \in Range(DigitChars)

DigitVal(c) == (CHOOSE k \in DOMAIN DigitChars : DigitChars[k] = c) - 1

RECURSIVE NatOf(_)
NatOf(s) ==
    IF s = <<>> THEN 0
    ELSE NatOf(SubSeq(s, 1, Len(s) - 1)) * 10 + DigitVal(s[Len(s)])

DotAt(s) == { k \in DOMAIN s : s[k] = "." }

\* hundredths of integer part ip and fraction part fp, or -1
DecimalHundredths(ip, fp) ==
    IF ~IsDigits(ip) \/ ~IsDigits(fp) THEN -1
    ELSE IF ip = <<>> /\ fp = <<>> THEN -1
    ELSE IF Len(fp) > 2 THEN -1
    ELSE NatOf(ip) * 100 + (IF Len(fp) = 1 THEN NatOf(fp) * 10 ELSE NatOf(fp))

SplitAtDot(s, d) == DecimalHundredths(SubSeq(s, 1, d - 1), SubSeq(s, d + 1, Len(s)))

\* hundredths of an unsigned decimal text, or -1 when it is none
UnsignedHundredths(s) ==
    IF s = <<>> THEN -1
    ELSE IF DotAt(s) = {} THEN (IF IsDigits(s) THEN NatOf(s) * 100 ELSE -1)
    ELSE IF Cardinality(DotAt(s)) > 1 THEN -1
    ELSE SplitAtDot(s, CHOOSE k \in DotAt(s) : TRUE)

SignedFloat(neg, h) ==
    IF h < 0 THEN [kind |-> "err", val |-> 0]
    ELSE [kind |-> "num", val |-> IF neg THEN 0 - h ELSE h]

py_float_stripped(s) ==
    SignedFloat(s # <<>> /\ Head(s) = "-",
                UnsignedHundredths(IF s # <<>> /\ Head(s) \in {"-", "+"}
                                   THEN Tail(s) ELSE s))

py_float(text) == py_float_stripped(strip(text))

\* float(cell) where the cell may be missing: float(nan) is nan
float_of_cell(cell) ==
    IF isna(cell) THEN [kind |-> "nan", val |-> 0] ELSE py_float(cell)

\* try: return float(...) except (ValueError, TypeError): return default
FloatOr(p, default) == IF p.kind = "num" THEN p.val ELSE default

clean_numeric(value, default) ==
    IF isna(value) \/ value = <<>> THEN default
    ELSE FloatOr(py_float(remove(replace(value, ",", "."), " ")), default)

\* --------------------------------------------------------------------------
\* str(number): the text a stored number is read back from
\* --------------------------------------------------------------------------

RECURSIVE StrOfNat(_)
StrOfNat(n) ==
    IF n < 10 THEN <<DigitChars[n + 1]>>
    ELSE StrOfNat(n \div 10) \o <<DigitChars[(n % 10) + 1]>>

\* str(int)
str_int(n) == IF n < 0 THEN <<"-">> \o StrOfNat(0 - n) ELSE StrOfNat(n)

\* str(float) of a value in hundredths: 800 -> 8.0, 1250 -> 12.5, 1225 -> 12.25
FractionText(frac) ==
    IF frac % 10 = 0 THEN StrOfNat(frac \div 10)
    ELSE StrOfNat(frac \div 10) \o StrOfNat(frac % 10)

StrOfHundredths(a) == StrOfNat(a \div 100) \o <<".">> \o FractionText(a % 100)

str_float(h) ==
    IF h < 0 THEN <<"-">> \o StrOfHundredths(0 - h) ELSE StrOfHundredths(h)

\* int(float): truncation toward zero
int_of(h) == IF h < 0 THEN 0 - ((0 - h) \div 100) ELSE h \div 100

\* round(cost * markup, 2), cost and markup in hundredths: the nearest
\* hundredth of cost*markup/100, a tie going to the even hundredth
RoundHalfEven(q, r) == IF r > 50 \/ (r = 50 /\ q % 2 = 1) THEN q + 1 ELSE q

RoundHundredths(n) ==
    IF n < 0 THEN 0 - RoundHalfEven((0 - n) \div 100, (0 - n) % 100)
    ELSE RoundHalfEven(n \div 100, n % 100)

round2(cost, markup) == RoundHundredths(cost * markup)

VALID_TRADEMARKS ==
    << <<"A","C","M","E","-","M","O","D","E","L","S">>,
       <<"A","L","E","R","T","E">>,
       <<"A","U","T","O","A","R","T">>,
       <<"A","V","E","N","U","E","4","3">>,
       <<"B","B","R","-","M","O","D","E","L","S">>,
       <<"B","U","R","A","G","O">>,
       <<"C","M","C">>,
       <<"C","M","R">>,
       <<"E","L","I","G","O","R">>,
       <<"E","S","V","A","L"," ","M","O","D","E","L">>,
       <<"G","P","-","R","E","P","L","I","C","A","S">>,
       <<"G","T","-","S","P","I","R","I","T">>,
       <<"I","X","O","-","M","O","D","E","L","S">>,
       <<"K","K","-","S","C","A","L","E">>,
       <<"K","Y","O","S","H","O">>,
       <<"L","C","D","-","M","O","D","E","L">>,
       <<"L","O","O","K","S","M","A","R","T">>,
       <<"M","A","X","I","M","A">>,
       <<"M","I","N","I"," ","H","E","L","M","E","T">>,
       <<"M","I","N","I","C","H","A","M","P","S">>,
       <<"M","I","T","I","C","A">>,
       <<"M","I","T","I","C","A","-","D","I","E","C","A","S","T">>,
       <<"M","I","T","I","C","A","-","R">>,
       <<"M","O","T","O","R","H","E","L","I","X">>,
       <<"M","R","-","M","O","D","E","L","S">>,
       <<"N","O","R","E","V">>,
       <<"N","Z","G">>,
       <<"O","T","T","O","-","M","O","B","I","L","E">>,
       <<"R","I","O","-","M","O","D","E","L","S">>,
       <<"S","C","H","U","C","O">>,
       <<"S","O","L","I","D","O">>,
       <<"S","P","A","R","K","-","M","O","D","E","L">>,
       <<"S","T","A","M","P","-","M","O","D","E","L","S">>,
       <<"T","E","C","N","O","M","O","D","E","L">>,
       <<"T","O","P","M","A","R","Q","U","E","S">>,
       <<"T","R","O","F","E","U">>,
       <<"T","R","U","E","S","C","A","L","E">>,
       <<"W","E","R","K","8","3">>,
       <<"D","M","-","M","O","D","E","L","S">>,
       <<"U","N","I","V","E","R","S","A","L"," ","H","O","B","B","I","E","S">>,
       <<"L","S","-","C","O","L","L","E","C","T","I","B","L","E","S">>,
       <<"M","C","G">>,
       <<"S","U","N","-","S","T","A","R">> >>

InList(x, list) == \E k \in DOMAIN list : list[k] = x

\* ==========================================================================
\* Markup Table Loader
\* ==========================================================================

\* MCWS_MARKUP_TABLE: Dict[str, float] = {}
EmptyTable == [b \in {} |-> 0]

TablePut(t, k, v) == [b \in (DOMAIN t) \cup {k} |-> IF b = k THEN v ELSE t[b]]

\* A side file is absent (pd.read_csv raises) or holds ncols columns and
\* the rows under its header; a row is <<brand cell, markup cell>>.
NoFile == [exists |-> FALSE, ncols |-> 0, rows |-> <<>>]

\* for _, row in df.iterrows(): the entries are added to the table as found
\* "if trademark and markup_str": a NaN markup cell is truthy
load_markup_entry(table, trademark, markup_str) ==
    IF trademark # <<>> /\ markup_str # <<>>
    THEN TablePut(table, trademark, clean_numeric(markup_str, 0))
    ELSE table

RECURSIVE load_markup_rows(_, _)
load_markup_rows(table, rows) ==
    IF rows = <<>> THEN table
    ELSE load_markup_rows(
             load_markup_entry(table, clean_trademark(Head(rows)[1]), Head(rows)[2]),
             Tail(rows))

\* "return MCWS_MARKUP_TABLE": the table is the value returned
Loaded(t) == [table |-> t, ret |-> t]

\* load_markup_table(file_path) on the process-wide table: the table after
\* the call and the value returned.  A read failure (no file, or no second
\* column for row.iloc[1]) is caught: {} is returned, the table is left as is.
load_markup_table(table, file) ==
    IF ~file.exists \/ (file.rows # <<>> /\ file.ncols < 2)
    THEN [table |-> table, ret |-> EmptyTable]
    ELSE Loaded(load_markup_rows(table, file.rows))

\* ==========================================================================
\* Duplicate / Trademark Validator
\* ==========================================================================

\* the distinct non-empty normalized codes in order of first appearance
\* (the keys of code_groups, a dict, in insertion order)
RECURSIVE code_group_keys(_, _)
RECURSIVE code_group_key(_, _, _)
code_group_key(code, rest, seen) ==
    IF code = <<>> \/ code \in seen THEN code_group_keys(rest, seen)
    ELSE <<code>> \o code_group_keys(rest, seen \cup {code})

code_group_keys(rows, seen) ==
    IF rows = <<>> THEN <<>>
    ELSE code_group_key(clean_code(Head(rows).our_code), Tail(rows), seen)

\* code_groups[code]: the 0-based indices of the rows with that code, ascending
RECURSIVE code_group(_, _, _)
code_group(rows, code, k) ==
    IF k > Len(rows) THEN <<>>
    ELSE (IF clean_code(rows[k].our_code) = code THEN <<k - 1>> ELSE <<>>)
         \o code_group(rows, code, k + 1)

\* the report entries of one duplicated code
duplicate_entry(code, idx, trademark) ==
    [Code |-> code, Row_Index |-> idx + 1, Trademark |-> trademark,
     Is_Valid_Trademark |-> InList(trademark, VALID_TRADEMARKS)]

RECURSIVE duplicate_entries(_, _, _)
duplicate_entries(rows, code, indices) ==
    IF indices = <<>> THEN <<>>
    ELSE << duplicate_entry(code, Head(indices),
                            clean_trademark(rows[Head(indices) + 1].trademark)) >>
         \o duplicate_entries(rows, code, Tail(indices))

\* faulty variant: the groups of one row are reported too
duplicate_group_any(rows, code, indices) ==
    IF Len(indices) > 0 THEN duplicate_entries(rows, code, indices) ELSE <<>>

\* duplicates = the groups with len(indices) > 1
duplicate_group(rows, code, indices) ==
    IF Len(indices) > 1 THEN duplicate_entries(rows, code, indices) ELSE <<>>

RECURSIVE duplicate_report_of(_, _)
duplicate_report_of(rows, keys) ==
    IF keys = <<>> THEN <<>>
    ELSE duplicate_group(rows, Head(keys), code_group(rows, Head(keys), 1))
         \o duplicate_report_of(rows, Tail(keys))

RECURSIVE valid_rows_of(_)
valid_rows_of(report) ==
    IF report = <<>> THEN <<>>
    ELSE (IF Head(report).Is_Valid_Trademark THEN <<Head(report).Row_Index - 1>> ELSE <<>>)
         \o valid_rows_of(Tail(report))

DuplicateResult(report) ==
    [valid_trademark_rows |-> valid_rows_of(report), duplicate_report |-> report]

find_duplicate_codes_with_trademark_check(rows) ==
    DuplicateResult(duplicate_report_of(rows, code_group_keys(rows, {})))

\* ==========================================================================
\* Master Availability Builder
\* ==========================================================================
\* Supplier A (MCWS): [has_trademark, has_our_code, has_code, rows], a row
\* being [our_code, code, trademark].  Supplier B (BBR): [has_sku, has_qty,
\* rows], a row being [sku, qty].

\* the body of the 'Our Code' loop for the normalized code c of a row
add_our_code(available, c, has_trademark, trademark) ==
    IF c = <<>> THEN available
    ELSE IF has_trademark /\ ~InList(clean_trademark(trademark), VALID_TRADEMARKS)
         THEN available
    ELSE available \cup {c}

\* Processa colonna 'Our Code'
RECURSIVE add_our_code_column(_, _, _)
add_our_code_column(available, rows, has_trademark) ==
    IF rows = <<>> THEN available
    ELSE add_our_code_column(
             add_our_code(available, clean_code(Head(rows).our_code), has_trademark,
                          Head(rows).trademark),
             Tail(rows), has_trademark)

\* faulty variant: the 'Code' column is taken without the trademark filter
add_code_unfiltered(available, c, has_trademark, trademark) ==
    IF c = <<>> THEN available ELSE available \cup {c}

\* the body of the 'Code' loop for the normalized code c of a row
add_code(available, c, has_trademark, trademark) ==
    IF c = <<>> THEN available
    ELSE IF has_trademark /\ ~InList(clean_trademark(trademark), VALID_TRADEMARKS)
         THEN available
    ELSE available \cup {c}

\* Processa colonna 'Code'
RECURSIVE add_code_column(_, _, _)
add_code_column(available, rows, has_trademark) ==
    IF rows = <<>> THEN available
    ELSE add_code_column(
             add_code(available, clean_code(Head(rows).code), has_trademark,
                      Head(rows).trademark),
             Tail(rows), has_trademark)

add_mcws_code(available, mcws) ==
    IF mcws.has_code THEN add_code_column(available, mcws.rows, mcws.has_trademark)
    ELSE available

\* the supplier-A part of the builder, on the set built so far
add_mcws(available, mcws) ==
    add_mcws_code(IF mcws.has_our_code
                  THEN add_our_code_column(available, mcws.rows, mcws.has_trademark)
                  ELSE available,
                  mcws)

\* find_duplicate_codes_with_trademark_check reads row['Our Code'] of every
\* row: a KeyError when the table has rows and no such column
mcws_raises(mcws) ==
    mcws.has_trademark /\ ~mcws.has_our_code /\ mcws.rows # <<>>

\* float(str(row[COL_BBR_QTY]).replace(',', '.')) <= 0; a text float()
\* rejects, and a missing cell (nan), leave is_available True
NotPositive(qty) == qty.kind = "num" /\ qty.val <= 0

\* faulty variant: the comma is not read as the decimal point
bbr_is_available_no_comma(row, has_qty) ==
    IF ~has_qty THEN TRUE
    ELSE ~NotPositive(IF isna(row.qty) THEN [kind |-> "nan", val |-> 0]
                      ELSE py_float(row.qty))

bbr_is_available(row, has_qty) ==
    IF ~has_qty THEN TRUE
    ELSE ~NotPositive(IF isna(row.qty) THEN [kind |-> "nan", val |-> 0]
                      ELSE py_float(replace(row.qty, ",", ".")))

\* faulty variant: the set is replaced by the code instead of extended
add_bbr_code_replacing(available, is_available, c) ==
    IF is_available /\ c # <<>> THEN {c} ELSE available

\* "if is_available: c = clean_code(code); if c: available_skus.add(c)"
add_bbr_code(available, is_available, c) ==
    IF is_available /\ c # <<>> THEN available \cup {c} ELSE available

RECURSIVE add_bbr_rows(_, _, _)
add_bbr_rows(available, rows, has_qty) ==
    IF rows = <<>> THEN available
    ELSE add_bbr_rows(
             add_bbr_code(available, bbr_is_available(Head(rows), has_qty),
                          clean_code(Head(rows).sku)),
             Tail(rows), has_qty)

\* the supplier-B part of the builder, on the set built so far
add_bbr(available, bbr) ==
    IF bbr.has_sku THEN add_bbr_rows(available, bbr.rows, bbr.has_qty) ELSE available

\* ==========================================================================
\* Inventory Reconciler
\* ==========================================================================
\* A target row is [sku, qty, cost, price, tags, costo_bbr, net_price]
\* (Variant SKU, Variant Inventory Qty, Variant Cost, Variant Price, Tags,
\* CostoBBRModels, Net Price).  A row of the working table is
\* [idx, row, log]: the index label of the target row it copies, the cells,
\* and the Change Log cell (a sequence of segments, <<>> for '').

\* try: current_val = float(row.get(COL_SHOPIFY_QTY, 0)) except: 0
\* current_logic = 1 if current_val > 0 else 0
Positive(p) == p.kind = "num" /\ p.val > 0

current_logic(row) == IF Positive(float_of_cell(row.qty)) THEN 1 ELSE 0

\* faulty variant: the current flag is not consulted for a listed code
decide_new_qty_any_listed(flag, is_in_stock_list) ==
    IF is_in_stock_list THEN 1
    ELSE IF flag = 1 THEN 0
    ELSE -1

\* the new quantity decided for a processed row, -1 for None
decide_new_qty(flag, is_in_stock_list) ==
    IF is_in_stock_list /\ flag = 0 THEN 1
    ELSE IF ~is_in_stock_list /\ flag = 1 THEN 0
    ELSE -1

InitInventory ==
    [total |-> 0, updates_1 |-> 0, updates_0 |-> 0, processed_skus |-> {},
     rows_output |-> <<>>]

\* faulty variant: the new quantity is not stored in the copy
out_row_of_unstored(row, new_qty) == row

\* out_row = row.copy(); out_row[COL_SHOPIFY_QTY] = new_qty, or row.copy()
out_row_of(row, new_qty) ==
    IF new_qty = -1 THEN row ELSE [row EXCEPT !.qty = str_int(new_qty)]

\* a first occurrence of sku_clean: the counters and rows_output
reconcile_processed(st, idx, row, sku_clean, new_qty) ==
    [st EXCEPT
       !.total = @ + 1,
       !.processed_skus = @ \cup {sku_clean},
       !.updates_1 = IF new_qty = 1 THEN @ + 1 ELSE @,
       !.updates_0 = IF new_qty = 0 THEN @ + 1 ELSE @,
       !.rows_output = Append(@, [idx |-> idx, row |-> out_row_of(row, new_qty),
                                  log |-> <<>>])]

\* faulty variant: a SKU seen before is processed again
reconcile_sku_repeating(st, idx, row, available, sku_clean) ==
    IF sku_clean = <<>> THEN [st EXCEPT !.total = @ + 1]
    ELSE reconcile_processed(st, idx, row, sku_clean,
                             decide_new_qty(current_logic(row), sku_clean \in available))

reconcile_sku(st, idx, row, available, sku_clean) ==
    IF sku_clean = <<>> THEN [st EXCEPT !.total = @ + 1]
    ELSE IF sku_clean \in st.processed_skus THEN [st EXCEPT !.total = @ + 1]
    ELSE reconcile_processed(st, idx, row, sku_clean,
                             decide_new_qty(current_logic(row), sku_clean \in available))

\* one iteration of "for idx, row in shopify_df.iterrows()"; idx is 0-based
reconcile_row(st, idx, row, available) ==
    reconcile_sku(st, idx, row, available, clean_code(row.sku))

\* the whole loop over a target table
RECURSIVE reconcile_rows(_, _, _, _)
reconcile_rows(st, rows, k, available) ==
    IF k > Len(rows) THEN st
    ELSE reconcile_rows(reconcile_row(st, k - 1, rows[k], available), rows, k + 1, available)

\* ==========================================================================
\* Source attribution
\* ==========================================================================

IsSubstr(needle, s) ==
    \E p \in 1..(Len(s) - Len(needle) + 1) : SubSeq(s, p, p + Len(needle) - 1) = needle

BrandMarker == <<"b","r","a","n","d","_">>

\* the character class [a-z0-9\-]
BrandChars == Range(LowerLetters) \cup Range(DigitChars) \cup {"-"}

\* the positions where re.search(r'brand_([a-z0-9\-]+)') can match
BrandMatches(s) ==
    { p \in 1..Len(s) :
        /\ p + Len(BrandMarker) <= Len(s)
        /\ SubSeq(s, p, p + Len(BrandMarker) - 1) = BrandMarker
        /\ s[p + Len(BrandMarker)] \in BrandChars }

\* the longest run of class characters from position p on (the greedy group)
RECURSIVE BrandRun(_, _)
BrandRun(s, p) ==
    IF p <= Len(s) /\ s[p] \in BrandChars THEN <<s[p]>> \o BrandRun(s, p + 1) ELSE <<>>

\* for trademark in VALID_TRADEMARKS: the first whose lowered, de-hyphenated
\* name occurs in the tags
RECURSIVE first_trademark_in(_, _)
first_trademark_in(tags_lower, k) ==
    IF k > Len(VALID_TRADEMARKS) THEN <<>>
    ELSE IF IsSubstr(replace(lower(VALID_TRADEMARKS[k]), "-", " "), tags_lower)
         THEN VALID_TRADEMARKS[k]
    ELSE first_trademark_in(tags_lower, k + 1)

\* brand_match.group(1).upper().replace('-', ' ') of the leftmost match
brand_of_match(tags_lower, ms) ==
    replace(upper(BrandRun(tags_lower,
                           (CHOOSE q \in ms : \A o \in ms : q <= o) + Len(BrandMarker))),
            "-", " ")

brand_in(tags_lower, ms) ==
    IF ms # {} THEN brand_of_match(tags_lower, ms)
    ELSE first_trademark_in(tags_lower, 1)

brand_in_lower(tags_lower) == brand_in(tags_lower, BrandMatches(tags_lower))

extract_brand_from_tags(tags) ==
    IF isna(tags) \/ tags = <<>> THEN <<>> ELSE brand_in_lower(lower(tags))

\* 'BBR' in brand or 'BBR-MODELS' in brand
is_bbr_brand(brand) ==
    \/ IsSubstr(<<"B","B","R">>, brand)
    \/ IsSubstr(<<"B","B","R","-","M","O","D","E","L","S">>, brand)

\* the definition in force (the module defines the function twice, alike)
identify_product_source(row) ==
    IF clean_numeric(row.costo_bbr, 0) > 0 THEN "BBR"
    ELSE IF clean_numeric(row.net_price, 0) > 0 THEN "MCWS"
    ELSE IF clean_numeric(row.cost, 0) <= 0 THEN "UNKNOWN"
    ELSE IF is_bbr_brand(extract_brand_from_tags(row.tags)) THEN "BBR"
    ELSE "MCWS"

\* ==========================================================================
\* Cost/Price Engine
\* ==========================================================================

\* BBR_MARKUP = 1.75, in hundredths
BBR_MARKUP == 175

InitCostStats ==
    [cost_updates_bbr |-> 0, cost_updates_mcws |-> 0,
     price_updates_bbr |-> 0, price_updates_mcws |-> 0,
     total_bbr |-> 0, total_mcws |-> 0, total_unknown |-> 0,
     missing_markup_brands |-> {}]

\* brand.upper().replace(' ', '-')
brand_lookup_of(brand) == replace(upper(brand), " ", "-")

\* faulty variant: the price is rewritten only when the cost was
price_bbr_with_cost(stats, row, cost_upd, new_cost, new_price, expected_price) ==
    [stats |-> [stats EXCEPT
                  !.total_bbr = @ + 1,
                  !.cost_updates_bbr = IF cost_upd THEN @ + 1 ELSE @,
                  !.price_updates_bbr =
                      IF cost_upd /\ new_price # expected_price THEN @ + 1 ELSE @],
     row |-> [row EXCEPT
                  !.cost = IF cost_upd THEN str_float(new_cost) ELSE @,
                  !.price = IF cost_upd /\ new_price # expected_price
                            THEN str_float(expected_price) ELSE @]]

\* B) GESTIONE PREZZI, BBR: the price is rewritten when it differs
price_bbr(stats, row, cost_upd, new_cost, new_price, expected_price) ==
    [stats |-> [stats EXCEPT
                  !.total_bbr = @ + 1,
                  !.cost_updates_bbr = IF cost_upd THEN @ + 1 ELSE @,
                  !.price_updates_bbr = IF new_price # expected_price THEN @ + 1 ELSE @],
     row |-> [row EXCEPT
                  !.cost = IF cost_upd THEN str_float(new_cost) ELSE @,
                  !.price = IF new_price # expected_price
                            THEN str_float(expected_price) ELSE @]]

\* faulty variant: costo_bbr is written whenever it is positive
cost_bbr_any_positive(stats, row, current_cost, new_price, costo_bbr) ==
    IF costo_bbr > 0
    THEN price_bbr(stats, row, TRUE, costo_bbr, new_price, round2(costo_bbr, BBR_MARKUP))
    ELSE price_bbr(stats, row, FALSE, current_cost, new_price,
                   round2(current_cost, BBR_MARKUP))

\* A) GESTIONE COSTI, BBR: new_cost is costo_bbr when it is positive and differs
cost_bbr(stats, row, current_cost, new_price, costo_bbr) ==
    IF costo_bbr > 0 /\ current_cost # costo_bbr
    THEN price_bbr(stats, row, TRUE, costo_bbr, new_price, round2(costo_bbr, BBR_MARKUP))
    ELSE price_bbr(stats, row, FALSE, current_cost, new_price,
                   round2(current_cost, BBR_MARKUP))

\* B) GESTIONE PREZZI, MCWS: the brand's markup, or the brand recorded as missing
price_mcws(stats, row, table, cost_upd, new_cost, new_price, brand, brand_lookup) ==
    IF brand_lookup \in DOMAIN table
    THEN [stats |-> [stats EXCEPT
                       !.total_mcws = @ + 1,
                       !.cost_updates_mcws = IF cost_upd THEN @ + 1 ELSE @,
                       !.price_updates_mcws =
                           IF new_price # round2(new_cost, table[brand_lookup])
                           THEN @ + 1 ELSE @],
          row |-> [row EXCEPT
                       !.cost = IF cost_upd THEN str_float(new_cost) ELSE @,
                       !.price = IF new_price # round2(new_cost, table[brand_lookup])
                                 THEN str_float(round2(new_cost, table[brand_lookup]))
                                 ELSE @]]
    ELSE [stats |-> [stats EXCEPT
                       !.total_mcws = @ + 1,
                       !.cost_updates_mcws = IF cost_upd THEN @ + 1 ELSE @,
                       !.missing_markup_brands =
                           IF brand # <<>> THEN @ \cup {brand} ELSE @],
          row |-> [row EXCEPT !.cost = IF cost_upd THEN str_float(new_cost) ELSE @]]

brand_mcws(stats, row, table, cost_upd, new_cost, new_price, brand) ==
    price_mcws(stats, row, table, cost_upd, new_cost, new_price, brand,
               brand_lookup_of(brand))

\* A) GESTIONE COSTI, MCWS: new_cost is net_price when it is positive and differs
cost_mcws(stats, row, table, current_cost, new_price, net_price) ==
    IF net_price > 0 /\ current_cost # net_price
    THEN brand_mcws(stats, row, table, TRUE, net_price, new_price,
                    extract_brand_from_tags(row.tags))
    ELSE brand_mcws(stats, row, table, FALSE, current_cost, new_price,
                    extract_brand_from_tags(row.tags))

cost_price_of_source(stats, row, table, source) ==
    IF source = "BBR"
    THEN cost_bbr(stats, row, clean_numeric(row.cost, 0), clean_numeric(row.price, 0),
                  clean_numeric(row.costo_bbr, 0))
    ELSE IF source = "MCWS"
    THEN cost_mcws(stats, row, table, clean_numeric(row.cost, 0),
                   clean_numeric(row.price, 0), clean_numeric(row.net_price, 0))
    ELSE [stats |-> [stats EXCEPT !.total_unknown = @ + 1], row |-> row]

\* one iteration of "for idx, row in df_output.iterrows()" of
\* process_costs_and_prices: the statistics and the row's cells after it
cost_price_row(stats, row, table) ==
    cost_price_of_source(stats, row, table, identify_product_source(row))

\* the row of the working table at k after its iteration
cost_price_at(rows, k, r) == [rows EXCEPT ![k].row = r.row]

\* the whole loop over the working table: [stats, rows]
RECURSIVE cost_price_rows(_, _, _, _)
RECURSIVE cost_price_next(_, _, _, _)
cost_price_next(r, rows, k, table) ==
    cost_price_rows(r.stats, cost_price_at(rows, k, r), k + 1, table)

cost_price_rows(stats, rows, k, table) ==
    IF k > Len(rows) THEN [stats |-> stats, rows |-> rows]
    ELSE cost_price_next(cost_price_row(stats, rows[k].row, table), rows, k, table)

\* ==========================================================================
\* Change-Log & Filter
\* ==========================================================================
\* The Change Log cell is the ' | '.join of its segments; a segment is kept
\* as [seg, old, new, note, ref, brand]: "QTY: old->new (note)",
\* "COST BBR: old->new (da CostoBBRModels=ref)", "PRICE MCWS: old->new
\* (markup=ref, brand=brand)", and so on.

Segment(seg, old, new, note, ref, brand) ==
    [seg |-> seg, old |-> old, new |-> new, note |-> note, ref |-> ref, brand |-> brand]

NUOVO_PRODOTTO == << Segment("NUOVO PRODOTTO", 0, 0, "", 0, <<>>) >>

\* original_by_sku: for idx, row in original_df.iterrows(): d[sku] = row,
\* so a later row with the same normalized SKU replaces an earlier one
original_by_sku_keys(original_rows) ==
    { clean_code(original_rows[k].sku) : k \in DOMAIN original_rows } \ { <<>> }

LastOf(ks) == CHOOSE k \in ks : \A o \in ks : k >= o

original_by_sku(original_rows, sku) ==
    original_rows[LastOf({ k \in DOMAIN original_rows :
                             clean_code(original_rows[k].sku) = sku })]

\* 1. CHECK INVENTORY CHANGES
qty_segment(original_qty, new_qty) ==
    IF original_qty = new_qty THEN <<>>
    ELSE << Segment("QTY", int_of(original_qty), int_of(new_qty),
                    IF new_qty = 100 THEN "RIATTIVATO"
                    ELSE IF new_qty = 0 THEN "DISATTIVATO" ELSE "",
                    0, <<>>) >>

qty_changes(original_row, row) ==
    qty_segment(clean_numeric(original_row.qty, 0), clean_numeric(row.qty, 0))

\* 2. CHECK COST CHANGES
cost_segment(seg, note, original_cost, new_cost, supplier_cost) ==
    IF supplier_cost > 0 /\ new_cost # original_cost
    THEN << Segment(seg, original_cost, new_cost, note, supplier_cost, <<>>) >>
    ELSE <<>>

cost_changes_of(original_row, row, source) ==
    IF source = "BBR"
    THEN cost_segment("COST BBR", "da CostoBBRModels",
                      clean_numeric(original_row.cost, 0), clean_numeric(row.cost, 0),
                      clean_numeric(row.costo_bbr, 0))
    ELSE IF source = "MCWS"
    THEN cost_segment("COST MCWS", "da NetPrice",
                      clean_numeric(original_row.cost, 0), clean_numeric(row.cost, 0),
                      clean_numeric(row.net_price, 0))
    ELSE <<>>

cost_changes(original_row, row) ==
    cost_changes_of(original_row, row, identify_product_source(row))

\* CHECK PRICE CHANGES (solo per log, non per filtro)
price_segment(seg, original_price, new_price, expected_price, markup, brand) ==
    IF original_price # expected_price /\ new_price = expected_price
    THEN << Segment(seg, original_price, new_price, "markup", markup, brand) >>
    ELSE <<>>

\* round(new_cost * markup, 2) if new_cost > 0 else 0
expected_price_of(new_cost, markup) ==
    IF new_cost > 0 THEN round2(new_cost, markup) ELSE 0

price_mcws_segment(original_row, row, table, brand, brand_lookup) ==
    IF brand_lookup \in DOMAIN table
    THEN price_segment("PRICE MCWS", clean_numeric(original_row.price, 0),
                       clean_numeric(row.price, 0),
                       expected_price_of(clean_numeric(row.cost, 0), table[brand_lookup]),
                       table[brand_lookup], brand)
    ELSE <<>>

price_mcws_brand(original_row, row, table, brand) ==
    price_mcws_segment(original_row, row, table, brand, brand_lookup_of(brand))

price_changes_for(original_row, row, table, source) ==
    IF source = "BBR"
    THEN price_segment("PRICE BBR", clean_numeric(original_row.price, 0),
                       clean_numeric(row.price, 0),
                       expected_price_of(clean_numeric(row.cost, 0), BBR_MARKUP),
                       BBR_MARKUP, <<>>)
    ELSE IF source = "MCWS"
    THEN price_mcws_brand(original_row, row, table, extract_brand_from_tags(row.tags))
    ELSE <<>>

price_changes_of(original_row, row, table) ==
    price_changes_for(original_row, row, table, identify_product_source(row))

\* faulty variant: a price change alone keeps the log
write_log_any_change(changes, price_changes) == changes \o price_changes

\* SCRIVI IL LOG: all_changes joined, reset to '' without a QTY or COST change
write_log(changes, price_changes) ==
    IF Len(changes) > 0 THEN changes \o price_changes ELSE <<>>

change_log_against(original_row, row, table) ==
    write_log(qty_changes(original_row, row) \o cost_changes(original_row, row),
              price_changes_of(original_row, row, table))

change_log_of_sku(row, original_rows, table, sku) ==
    IF sku \notin original_by_sku_keys(original_rows) THEN NUOVO_PRODOTTO
    ELSE change_log_against(original_by_sku(original_rows, sku), row, table)

\* one iteration of "for idx, row in df_output.iterrows()" of
\* add_change_log_column: the Change Log cell the row ends with
change_log_of(row, original_rows, table) ==
    change_log_of_sku(row, original_rows, table, clean_code(row.sku))

\* df_output[df_output[COL_CHANGE_LOG] != '']
RECURSIVE filter_changed(_)
filter_changed(rows) ==
    IF rows = <<>> THEN <<>>
    ELSE (IF Head(rows).log # <<>> THEN <<Head(rows)>> ELSE <<>>)
         \o filter_changed(Tail(rows))

\* ==========================================================================
\* The process: state
\* ==========================================================================

VARIABLES
    MCWS_MARKUP_TABLE,  \* the module-level table, kept between calls
    files,              \* the side files of the working directory, by path
    pc,                 \* where the running call is
    entry,              \* the function that was called
    args,               \* its arguments
    i,                  \* position of the running loop (1-based)
    available_skus,     \* the master availability set
    duplicate_report,   \* the duplicate diagnostic table
    inv,                \* all_stats['inventory'], processed_skus, rows_output
    stats,              \* the statistics of process_costs_and_prices
    costs_prices,       \* all_stats['costs_prices']: <<>> for {}, else <<stats>>
    df_output,          \* the working table, and at the end the table returned
    columns,            \* df_output.columns, <<>> for pd.DataFrame()
    log_messages,       \* the progress lines: [msg, n, names], msg the text
                        \* with {} where the values n (or the names) go
    arg,                \* the argument of a call of clean_code
    ret                 \* the value it returned

vars == << MCWS_MARKUP_TABLE, files, pc, entry, args, i, available_skus,
           duplicate_report, inv, stats, costs_prices, df_output, columns,
           log_messages, arg, ret >>

\* the default of load_markup_table's file_path and of markup_file
DEFAULT_MARKUP_FILE == "Vroomi_Markup.txt"

\* ==========================================================================
\* Inputs
\* ==========================================================================

\* bounds of the model
MaxRows == 2

MaxMcwsRows == 2

MaxBbrRows == 1

MaxLen == 4

SeqsUpTo(S, n) == UNION { [1..k -> S] : k \in 0..n }

TargetRow(sku, qty, cost, price, tags, costo_bbr, net_price) ==
    [sku |-> sku, qty |-> qty, cost |-> cost, price |-> price, tags |-> tags,
     costo_bbr |-> costo_bbr, net_price |-> net_price]

TagsAutoart == <<"1","/","4","3",","," ","b","r","a","n","d","_","a","u","t","o","a","r","t">>

TagsBbr == <<"b","r","a","n","d","_","b","b","r","-","m","o","d","e","l","s">>

\* the target rows of the model: two normalized SKUs (K123, AB99) under
\* several spellings, rows without a code, and the three sources
TargetRows ==
    { \* K-123, qty 0, no cost data (UNKNOWN)
      TargetRow(<<"K","-","1","2","3">>, <<"0">>, NaN, NaN, NaN, NaN, NaN),
      \* the same code spelled "0k123 ", qty 1 (UNKNOWN)
      TargetRow(<<"0","k","1","2","3"," ">>, <<"1">>, NaN, NaN, NaN, NaN, NaN),
      \* AB99, qty 1, empty tags, no cost fields (UNKNOWN)
      TargetRow(<<"A","B","9","9">>, <<"1">>, NaN, NaN, NaN, NaN, NaN),
      \* MCWS by Net Price, cost already equal, price 10.00
      TargetRow(<<"a","b","-","9","9">>, <<"0">>, <<"8",".","0","0">>,
                <<"1","0",".","0","0">>, TagsAutoart, NaN, <<"8",",","0","0">>),
      \* MCWS by Net Price, cost 4.00 to become 8.00
      TargetRow(<<"A","B","9","9">>, <<"1">>, <<"4",".","0","0">>,
                <<"6",".","0","0">>, TagsAutoart, NaN, <<"8",",","0","0">>),
      \* BBR by CostoBBRModels, cost 4.00 to become 8.00, price 7.00 to 14.00
      TargetRow(<<"K","-","1","2","3">>, <<"1">>, <<"4",".","0","0">>,
                <<"7",".","0","0">>, NaN, <<"8",".","0","0">>, NaN),
      \* BBR by CostoBBRModels, cost and price already right, qty 5
      TargetRow(<<"K","1","2","3">>, <<"5">>, <<"8",".","0","0">>,
                <<"1","4",".","0","0">>, NaN, <<"8",".","0","0">>, NaN),
      \* BBR inferred from the tags, price 9.00 to become 14.00
      TargetRow(<<"A","B","9","9">>, <<"0">>, <<"8",".","0","0">>,
                <<"9",".","0","0">>, TagsBbr, NaN, NaN),
      \* K-123, a quantity written with a decimal comma
      TargetRow(<<"K","-","1","2","3">>, <<"1",",","0">>, NaN, NaN, NaN, NaN, NaN),
      \* no code after normalization
      TargetRow(<<"0","0","0">>, <<"1">>, NaN, NaN, NaN, NaN, NaN),
      \* no SKU cell
      TargetRow(NaN, <<"0">>, NaN, NaN, NaN, NaN, NaN) }

\* a target table with the seven columns the run reads
Shopify(rows) ==
    [has_sku |-> TRUE,
     columns |-> << "Variant SKU", "Variant Inventory Qty", "Variant Cost",
                    "Variant Price", "Tags", "CostoBBRModels", "Net Price" >>,
     rows |-> rows]

\* a target table without the 'Variant SKU' column
ShopifyNoSku ==
    [has_sku |-> FALSE,
     columns |-> << "Variant Inventory Qty", "Variant Cost", "Variant Price", "Tags" >>,
     rows |-> << TargetRow(NaN, <<"1">>, NaN, NaN, NaN, NaN, NaN) >>]

TargetTables == { Shopify(t) : t \in SeqsUpTo(TargetRows, MaxRows) }

McwsRow(our_code, code, trademark) ==
    [our_code |-> our_code, code |-> code, trademark |-> trademark]

McwsRows ==
    { McwsRow(<<"k","-","1","2","3">>, <<"A","B","9","9">>, <<" ","a","u","t","o","a","r","t"," ">>),
      McwsRow(<<"k","0","0","1">>, <<"a","b","-","9","9">>, <<"F","A","K","E","-","B","R","A","N","D">>),
      McwsRow(<<"K","-","0","0","1">>, NaN, <<"B","B","R","-","M","O","D","E","L","S">>),
      \* no code after normalization
      McwsRow(<<"0","0">>, NaN, <<"A","U","T","O","A","R","T">>) }

Mcws(has_trademark, has_our_code, has_code, rows) ==
    [has_trademark |-> has_trademark, has_our_code |-> has_our_code,
     has_code |-> has_code, rows |-> rows]

\* an absent column is read by no step; its cells are kept as given
McwsTables ==
    { Mcws(c[1], c[2], c[3], t) :
        c \in { <<TRUE, TRUE, TRUE>>, <<FALSE, TRUE, TRUE>>, <<TRUE, FALSE, TRUE>> },
        t \in SeqsUpTo(McwsRows, MaxMcwsRows) }

BbrRow(sku, qty) == [sku |-> sku, qty |-> qty]

BbrRows ==
    { BbrRow(<<"K","-","1","2","3">>, <<"2">>),
      BbrRow(<<"a","b","9","9">>, <<"0",",","0">>),
      BbrRow(<<"A","B","9","9">>, <<"n","/","a">>),
      BbrRow(<<"0","0","0">>, NaN) }

Bbr(has_sku, has_qty, rows) == [has_sku |-> has_sku, has_qty |-> has_qty, rows |-> rows]

BbrTables ==
    { Bbr(c[1], c[2], t) :
        c \in { <<TRUE, TRUE>>, <<TRUE, FALSE>>, <<FALSE, TRUE>> },
        t \in SeqsUpTo(BbrRows, MaxBbrRows) }

\* supplier tables giving each availability set over {K123, AB99}
SupplierPairs ==
    { << Mcws(TRUE, TRUE, TRUE, <<>>), Bbr(TRUE, TRUE, <<>>) >>,
      << Mcws(TRUE, TRUE, TRUE,
              << McwsRow(<<"k","-","1","2","3">>, NaN, <<" ","a","u","t","o","a","r","t"," ">>) >>),
         Bbr(TRUE, TRUE, <<>>) >>,
      << Mcws(TRUE, TRUE, TRUE, <<>>),
         Bbr(TRUE, TRUE, << BbrRow(<<"a","b","9","9">>, <<"2">>) >>) >>,
      << Mcws(TRUE, TRUE, TRUE,
              << McwsRow(<<"k","-","1","2","3">>, NaN, <<" ","a","u","t","o","a","r","t"," ">>) >>),
         Bbr(TRUE, TRUE, << BbrRow(<<"a","b","9","9">>, <<"2">>) >>) >> }

\* the side files: tab-delimited, a header row, brand and markup
MarkupFileA ==
    [exists |-> TRUE, ncols |-> 2,
     rows |-> << << <<"A","u","t","o","a","r","t">>, <<"1",",","5","0">> >>,
                 << <<"N","o","r","e","v">>, <<"2",",","0","0">> >>,
                 \* a name of the valid list with a space
                 << <<"E","s","v","a","l"," ","M","o","d","e","l">>, <<"1",",","5","0">> >>,
                 \* a markup cell that is no number, and an empty one
                 << <<"S","o","l","i","d","o">>, <<"n","/","a">> >>,
                 << <<"S","c","h","u","c","o">>, NaN >> >>]

MarkupFileB ==
    [exists |-> TRUE, ncols |-> 2,
     rows |-> << << <<"A","U","T","O","A","R","T">>, <<"2",",","0","0">> >> >>]

Paths == { DEFAULT_MARKUP_FILE, "markup_b.txt", "missing.txt" }

\* the working directory with and without a file at the default path
FileSystems ==
    { [p \in Paths |-> IF p = "markup_b.txt" THEN MarkupFileB ELSE NoFile],
      [p \in Paths |-> IF p = DEFAULT_MARKUP_FILE THEN MarkupFileA
                       ELSE IF p = "markup_b.txt" THEN MarkupFileB ELSE NoFile] }

Args(shopify_df, mcws_df, bbr_df, markup_file) ==
    [shopify_df |-> shopify_df, mcws_df |-> mcws_df, bbr_df |-> bbr_df,
     markup_file |-> markup_file]

\* every target table against each availability set
TargetInputs ==
    { Args(t, sp[1], sp[2], f) :
        t \in TargetTables, sp \in SupplierPairs, f \in { DEFAULT_MARKUP_FILE } }

FixedTargets ==
    { Shopify(<< TargetRow(<<"K","-","1","2","3">>, <<"0">>, NaN, NaN, NaN, NaN, NaN),
                 TargetRow(<<"A","B","9","9">>, <<"1">>, NaN, NaN, NaN, NaN, NaN) >>),
      ShopifyNoSku }

\* every pair of supplier tables against fixed target tables
SupplierInputs ==
    { Args(t, m, b, f) :
        t \in FixedTargets, m \in McwsTables, b \in BbrTables,
        f \in { DEFAULT_MARKUP_FILE } }

MarkupTargets ==
    { Shopify(<< TargetRow(<<"A","B","9","9">>, <<"1">>, <<"4",".","0","0">>,
                           <<"6",".","0","0">>, TagsAutoart, NaN, <<"8",",","0","0">>) >>),
      Shopify(<< TargetRow(<<"a","b","-","9","9">>, <<"0">>, <<"8",".","0","0">>,
                           <<"1","0",".","0","0">>, TagsAutoart, NaN, <<"8",",","0","0">>),
                 TargetRow(<<"K","-","1","2","3">>, <<"1">>, <<"4",".","0","0">>,
                           <<"7",".","0","0">>, NaN, <<"8",".","0","0">>, NaN) >>),
      \* a target table without the CostoBBRModels and Net Price columns
      [ Shopify(<< TargetRow(<<"A","B","9","9">>, <<"1">>, <<"8",".","0","0">>,
                             <<"9",".","0","0">>, TagsBbr, NaN, NaN) >>)
          EXCEPT !.columns = << "Variant SKU", "Variant Inventory Qty", "Variant Cost",
                                "Variant Price", "Tags" >> ],
      \* a cost and tags that name no brand; a brand whose name has a space
      Shopify(<< TargetRow(<<"K","-","1","2","3">>, <<"0">>, <<"8",".","0","0">>,
                           <<"9",".","0","0">>, <<"1","/","4","3">>, NaN, NaN),
                 TargetRow(<<"A","B","9","9">>, <<"1">>, <<"4",".","0","0">>,
                           <<"6",".","0","0">>,
                           <<"b","r","a","n","d","_","e","s","v","a","l","-","m","o","d","e","l">>,
                           NaN, <<"8",",","0","0">>) >>) }

\* every markup path against fixed tables
MarkupInputs ==
    { Args(t, sp[1], sp[2], f) :
        t \in MarkupTargets, sp \in SupplierPairs, f \in Paths }

Inputs == TargetInputs \cup SupplierInputs \cup MarkupInputs

\* the calls made one after another in one process
CallsInputs == MarkupInputs

\* a direct call add_change_log_column(df_output, original_df)
WorkingTable(rows) ==
    [k \in DOMAIN rows |-> [idx |-> k - 1, row |-> rows[k], log |-> <<>>]]

ChangeLogInputs ==
    { << WorkingTable(t), Shopify(o) >> :
        t \in SeqsUpTo(TargetRows, MaxRows), o \in SeqsUpTo(TargetRows, 1) }

NoArgs ==
    Args(Shopify(<<>>), Mcws(FALSE, FALSE, FALSE, <<>>), Bbr(FALSE, FALSE, <<>>),
         DEFAULT_MARKUP_FILE)

\* ==========================================================================
\* The process: steps
\* ==========================================================================

\* the module is imported: the table is empty, no call is running
Init ==
    /\ MCWS_MARKUP_TABLE = EmptyTable
    /\ files \in FileSystems
    /\ pc = "idle"
    /\ entry = "none"
    /\ args = NoArgs
    /\ i = 0
    /\ available_skus = {}
    /\ duplicate_report = <<>>
    /\ inv = InitInventory
    /\ stats = InitCostStats
    /\ costs_prices = <<>>
    /\ df_output = <<>>
    /\ columns = <<>>
    /\ log_messages = <<>>
    /\ arg = <<>>
    /\ ret = <<>>

\* process_inventory_v02(shopify_df, mcws_df, bbr_df, markup_file) is entered
Call(in) ==
    /\ pc = "idle"
    /\ pc' = "load_markup"
    /\ entry' = "process_inventory_v02"
    /\ args' = in
    /\ i' = 0
    /\ available_skus' = {}
    /\ duplicate_report' = <<>>
    /\ inv' = InitInventory
    /\ stats' = InitCostStats
    /\ costs_prices' = <<>>
    /\ df_output' = <<>>
    /\ columns' = <<>>
    /\ log_messages' =
         << [msg |-> "==================================================", n |-> <<>>, names |-> {}],
            [msg |-> "INVENTORY SYNC V02 - GESTIONE COMPLETA", n |-> <<>>, names |-> {}],
            [msg |-> "==================================================", n |-> <<>>, names |-> {}],
            [msg |-> "Trademark validi: {} brand", n |-> <<Len(VALID_TRADEMARKS)>>,
             names |-> {}] >>
    /\ UNCHANGED << MCWS_MARKUP_TABLE, files, arg, ret >>

CallAny == pc = "idle" /\ \E in \in Inputs : Call(in)

CallAgain == pc = "idle" /\ \E in \in CallsInputs : Call(in)

\* 1. CARICA TABELLA MARKUP: the value returned is not used
LoadMarkup ==
    /\ pc = "load_markup"
    /\ MCWS_MARKUP_TABLE' = load_markup_table(MCWS_MARKUP_TABLE, files[args.markup_file]).table
    /\ pc' = "mcws"
    /\ log_messages' = log_messages \o
         << [msg |-> "0. Caricamento tabella markup MCWS...", n |-> <<>>, names |-> {}],
            [msg |-> "   Caricati {} brand dalla tabella markup",
             n |-> <<Cardinality(DOMAIN MCWS_MARKUP_TABLE')>>, names |-> {}] >>
    /\ UNCHANGED << files, entry, args, i, available_skus, duplicate_report, inv,
                    stats, costs_prices, df_output, columns, arg, ret >>

\* 2. PROCESS MCWS: available_skus = set(), the duplicates, the two columns
ProcessMcws ==
    /\ pc = "mcws"
    /\ IF mcws_raises(args.mcws_df)
       THEN /\ pc' = "raised"
            /\ UNCHANGED << available_skus, duplicate_report >>
       ELSE /\ pc' = "bbr"
            /\ duplicate_report' =
                 IF args.mcws_df.has_trademark
                 THEN find_duplicate_codes_with_trademark_check(args.mcws_df.rows).duplicate_report
                 ELSE <<>>
            /\ available_skus' = add_mcws({}, args.mcws_df)
    /\ log_messages' = log_messages \o
         << [msg |-> "1. Processing MCWS Stocklist...", n |-> <<>>, names |-> {}] >> \o
         (IF args.mcws_df.has_trademark
          THEN << [msg |-> "   Colonna Trademark trovata, applicazione filtro brand validi",
                   n |-> <<>>, names |-> {}],
                  [msg |-> "   Verifica duplicati...", n |-> <<>>, names |-> {}] >>
          ELSE << [msg |-> "   ATTENZIONE: Colonna Trademark non trovata in MCWS",
                   n |-> <<>>, names |-> {}],
                  [msg |-> "   Verranno elaborati TUTTI i prodotti senza filtro Trademark",
                   n |-> <<>>, names |-> {}] >>) \o
         (IF mcws_raises(args.mcws_df) THEN <<>>
          ELSE (IF args.mcws_df.has_trademark
                THEN << [msg |-> "   Trovati {} casi di duplicati",
                         n |-> <<Len(duplicate_report')>>, names |-> {}] >>
                ELSE <<>>) \o
               << [msg |-> "   Elaborazione codici da MCWS...", n |-> <<>>, names |-> {}],
                  [msg |-> "   Caricati {} codici unici da MCWS",
                   n |-> <<Cardinality(available_skus')>>, names |-> {}] >>)
    /\ UNCHANGED << MCWS_MARKUP_TABLE, files, entry, args, i, inv, stats,
                    costs_prices, df_output, columns, arg, ret >>

\* 3. PROCESS BBR
ProcessBbr ==
    /\ pc = "bbr"
    /\ available_skus' = add_bbr(available_skus, args.bbr_df)
    /\ pc' = "compare"
    /\ log_messages' = log_messages \o
         << [msg |-> "2. Processing BBR Export...", n |-> <<>>, names |-> {}],
            [msg |-> "   Caricati {} codici unici da BBR",
             n |-> <<Cardinality(available_skus') - Cardinality(available_skus)>>,
             names |-> {}],
            [msg |-> "   TOTALE MASTER SKU LIST: {} item unici",
             n |-> <<Cardinality(available_skus')>>, names |-> {}] >>
    /\ UNCHANGED << MCWS_MARKUP_TABLE, files, entry, args, i, duplicate_report, inv,
                    stats, costs_prices, df_output, columns, arg, ret >>

\* 4. COMPARE SHOPIFY: without the SKU column an empty table is returned
CompareStart ==
    /\ pc = "compare"
    /\ IF ~args.shopify_df.has_sku
       THEN pc' = "done" /\ i' = 0
       ELSE pc' = "reconcile" /\ i' = 1
    /\ log_messages' = log_messages \o
         << [msg |-> "3. Comparing with Shopify Products (Inventory)...",
             n |-> <<>>, names |-> {}] >> \o
         (IF ~args.shopify_df.has_sku
          THEN << [msg |-> "ERRORE: Colonna 'Variant SKU' mancante nel file Shopify",
                   n |-> <<>>, names |-> {}] >>
          ELSE <<>>)
    /\ UNCHANGED << MCWS_MARKUP_TABLE, files, entry, args, available_skus,
                    duplicate_report, inv, stats, costs_prices, df_output, columns,
                    arg, ret >>

ReconcileRow ==
    /\ pc = "reconcile"
    /\ i <= Len(args.shopify_df.rows)
    /\ inv' = reconcile_row(inv, i - 1, args.shopify_df.rows[i], available_skus)
    /\ i' = i + 1
    /\ UNCHANGED << MCWS_MARKUP_TABLE, files, pc, entry, args, available_skus,
                    duplicate_report, stats, costs_prices, df_output, columns,
                    log_messages, arg, ret >>

\* 7. RIEPILOGO FINALE: the lines that end the log of a run
summary_lines(st, cp) ==
    << [msg |-> "==================================================", n |-> <<>>, names |-> {}],
       [msg |-> "RIEPILOGO ELABORAZIONE", n |-> <<>>, names |-> {}],
       [msg |-> "==================================================", n |-> <<>>, names |-> {}],
       [msg |-> "SKU Shopify totali: {}", n |-> <<st.total>>, names |-> {}],
       [msg |-> "Aggiornamenti inventory (0->1): {}", n |-> <<st.updates_1>>, names |-> {}],
       [msg |-> "Aggiornamenti inventory (1->0): {}", n |-> <<st.updates_0>>, names |-> {}] >> \o
    (IF cp = <<>> THEN <<>>
     ELSE << [msg |-> "Prodotti BBR processati: {}", n |-> <<cp[1].total_bbr>>, names |-> {}],
             [msg |-> "  - Costi BBR aggiornati: {}", n |-> <<cp[1].cost_updates_bbr>>,
              names |-> {}],
             [msg |-> "  - Prezzi BBR aggiornati: {}", n |-> <<cp[1].price_updates_bbr>>,
              names |-> {}],
             [msg |-> "Prodotti MCWS processati: {}", n |-> <<cp[1].total_mcws>>, names |-> {}],
             [msg |-> "  - Costi MCWS aggiornati: {}", n |-> <<cp[1].cost_updates_mcws>>,
              names |-> {}],
             [msg |-> "  - Prezzi MCWS aggiornati: {}", n |-> <<cp[1].price_updates_mcws>>,
              names |-> {}] >> \o
          (IF cp[1].missing_markup_brands # {}
           THEN << [msg |-> "Brand senza markup: {}",
                    n |-> <<Cardinality(cp[1].missing_markup_brands)>>, names |-> {}] >>
           ELSE <<>>))

\* df_output = pd.DataFrame(rows_output); when it is not empty
\* process_costs_and_prices is entered: the CostoBBRModels and Net Price
\* columns are created when absent, and "if not MCWS_MARKUP_TABLE:
\* load_markup_table()" reads the default path
EndReconcile ==
    /\ pc = "reconcile"
    /\ i > Len(args.shopify_df.rows)
    /\ df_output' = inv.rows_output
    /\ IF inv.rows_output = <<>>
       THEN /\ pc' = "done" /\ i' = 0
            /\ UNCHANGED MCWS_MARKUP_TABLE
            /\ columns' = <<>>
       ELSE /\ pc' = "costs" /\ i' = 1
            /\ MCWS_MARKUP_TABLE' =
                 IF MCWS_MARKUP_TABLE = EmptyTable
                 THEN load_markup_table(MCWS_MARKUP_TABLE, files[DEFAULT_MARKUP_FILE]).table
                 ELSE MCWS_MARKUP_TABLE
            /\ columns' = args.shopify_df.columns \o
                 (IF InList("CostoBBRModels", args.shopify_df.columns)
                  THEN <<>> ELSE <<"CostoBBRModels">>) \o
                 (IF InList("Net Price", args.shopify_df.columns)
                  THEN <<>> ELSE <<"Net Price">>)
    /\ log_messages' = log_messages \o
         << [msg |-> "   Totale SKU processati: {}",
             n |-> <<Cardinality(inv.processed_skus)>>, names |-> {}],
            [msg |-> "   Aggiornamenti inventory necessari: To 1={}, To 0={}",
             n |-> <<inv.updates_1, inv.updates_0>>, names |-> {}] >> \o
         (IF inv.rows_output = <<>> THEN summary_lines(inv, <<>>)
          ELSE << [msg |-> "4. Processing Costs and Prices...", n |-> <<>>, names |-> {}],
                  [msg |-> "   [COSTI/PREZZI] Inizio elaborazione costi e prezzi...",
                   n |-> <<>>, names |-> {}] >> \o
               (IF MCWS_MARKUP_TABLE = EmptyTable
                THEN << [msg |-> "   [COSTI/PREZZI] Tabella markup caricata: {} brand",
                         n |-> <<Cardinality(DOMAIN MCWS_MARKUP_TABLE')>>, names |-> {}] >>
                ELSE <<>>))
    /\ UNCHANGED << files, entry, args, available_skus, duplicate_report, inv,
                    stats, costs_prices, arg, ret >>

CostRowResult(r) ==
    /\ stats' = r.stats
    /\ df_output' = cost_price_at(df_output, i, r)

CostRow ==
    /\ pc = "costs"
    /\ i <= Len(df_output)
    /\ CostRowResult(cost_price_row(stats, df_output[i].row, MCWS_MARKUP_TABLE))
    /\ i' = i + 1
    /\ UNCHANGED << MCWS_MARKUP_TABLE, files, pc, entry, args, available_skus,
                    duplicate_report, inv, costs_prices, columns, log_messages,
                    arg, ret >>

\* process_costs_and_prices returns; add_change_log_column is entered
EndCosts ==
    /\ pc = "costs"
    /\ i > Len(df_output)
    /\ costs_prices' = <<stats>>
    /\ pc' = "changelog"
    /\ i' = 1
    /\ columns' = columns \o <<"Change Log">>
    /\ log_messages' = log_messages \o
         << [msg |-> "   [COSTI/PREZZI] Prodotti BBR: {} (costi aggiornati: {}, prezzi aggiornati: {})",
             n |-> <<stats.total_bbr, stats.cost_updates_bbr, stats.price_updates_bbr>>,
             names |-> {}],
            [msg |-> "   [COSTI/PREZZI] Prodotti MCWS: {} (costi aggiornati: {}, prezzi aggiornati: {})",
             n |-> <<stats.total_mcws, stats.cost_updates_mcws, stats.price_updates_mcws>>,
             names |-> {}] >> \o
         (IF stats.missing_markup_brands # {}
          THEN << [msg |-> "   [COSTI/PREZZI] Brand senza markup configurato: {}",
                   n |-> <<>>, names |-> stats.missing_markup_brands] >>
          ELSE <<>>) \o
         << [msg |-> "5. Generating Change Log...", n |-> <<>>, names |-> {}],
            [msg |-> "   [CHANGE LOG] Inizio analisi variazioni...", n |-> <<>>,
             names |-> {}] >>
    /\ UNCHANGED << MCWS_MARKUP_TABLE, files, entry, args, available_skus,
                    duplicate_report, inv, stats, df_output, arg, ret >>

ChangeLogRow ==
    /\ pc = "changelog"
    /\ i <= Len(df_output)
    /\ df_output' = [df_output EXCEPT
                       ![i].log = change_log_of(df_output[i].row, args.shopify_df.rows,
                                                MCWS_MARKUP_TABLE)]
    /\ i' = i + 1
    /\ UNCHANGED << MCWS_MARKUP_TABLE, files, pc, entry, args, available_skus,
                    duplicate_report, inv, stats, costs_prices, columns,
                    log_messages, arg, ret >>

\* the final filter; the call returns
EndChangeLog ==
    /\ pc = "changelog"
    /\ i > Len(df_output)
    /\ df_output' = filter_changed(df_output)
    /\ pc' = "done"
    /\ i' = 0
    /\ log_messages' = log_messages \o
         << [msg |-> "   [CHANGE LOG] Trovate {} righe con variazioni (QTY o COST)",
             n |-> <<Len(df_output')>>, names |-> {}],
            [msg |-> "   [CHANGE LOG] Output filtrato: {} righe con modifiche",
             n |-> <<Len(df_output')>>, names |-> {}] >> \o
         (IF entry = "process_inventory_v02" THEN summary_lines(inv, costs_prices)
          ELSE <<>>)
    /\ UNCHANGED << MCWS_MARKUP_TABLE, files, entry, args, available_skus,
                    duplicate_report, inv, stats, costs_prices, columns, arg, ret >>

\* add_change_log_column(df_output, original_df, log_messages) called directly
CallChangeLog ==
    /\ pc = "idle"
    /\ \E in \in ChangeLogInputs :
         /\ args' = [NoArgs EXCEPT !.shopify_df = in[2]]
         /\ df_output' = in[1]
         /\ IF in[1] = <<>>
            THEN /\ pc' = "done" /\ i' = 0
                 /\ columns' = <<>>
                 /\ log_messages' =
                      << [msg |-> "   [CHANGE LOG] DataFrame vuoto, nessuna elaborazione",
                          n |-> <<>>, names |-> {}] >>
            ELSE /\ pc' = "changelog" /\ i' = 1
                 /\ columns' = in[2].columns \o <<"Change Log">>
                 /\ log_messages' =
                      << [msg |-> "   [CHANGE LOG] Inizio analisi variazioni...",
                          n |-> <<>>, names |-> {}] >>
    /\ entry' = "add_change_log_column"
    /\ available_skus' = {}
    /\ duplicate_report' = <<>>
    /\ inv' = InitInventory
    /\ stats' = InitCostStats
    /\ costs_prices' = <<>>
    /\ UNCHANGED << MCWS_MARKUP_TABLE, files, arg, ret >>

\* the caller has the result (or the exception); the process goes on
Return ==
    /\ pc \in {"done", "raised"}
    /\ pc' = "idle"
    /\ entry' = "none"
    /\ args' = NoArgs
    /\ i' = 0
    /\ available_skus' = {}
    /\ duplicate_report' = <<>>
    /\ inv' = InitInventory
    /\ stats' = InitCostStats
    /\ costs_prices' = <<>>
    /\ df_output' = <<>>
    /\ columns' = <<>>
    /\ log_messages' = <<>>
    /\ UNCHANGED << MCWS_MARKUP_TABLE, files, arg, ret >>

\* one call in a fresh process
Next ==
    \/ CallAny
    \/ CallChangeLog
    \/ LoadMarkup
    \/ ProcessMcws
    \/ ProcessBbr
    \/ CompareStart
    \/ ReconcileRow
    \/ EndReconcile
    \/ CostRow
    \/ EndCosts
    \/ ChangeLogRow
    \/ EndChangeLog

Spec == Init /\ [][Next]_vars

\* calls of process_inventory_v02 one after another in one process
NextCalls ==
    \/ CallAgain
    \/ LoadMarkup
    \/ ProcessMcws
    \/ ProcessBbr
    \/ CompareStart
    \/ ReconcileRow
    \/ EndReconcile
    \/ CostRow
    \/ EndCosts
    \/ ChangeLogRow
    \/ EndChangeLog
    \/ Return

SpecCalls == Init /\ [][NextCalls]_vars

\* --------------------------------------------------------------------------
\* clean_code called on a raw code, and again on what it returned
\* --------------------------------------------------------------------------

\* the raw codes: a missing cell, and the texts of up to MaxLen characters
\* over a zero, a digit, a letter in both cases, a hyphen and a space
CodeTexts == {NaN} \cup SeqsUpTo({"0", "7", "k", "K", "-", " "}, MaxLen)

InitClean ==
    /\ arg \in CodeTexts
    /\ ret = <<>>
    /\ MCWS_MARKUP_TABLE = EmptyTable
    /\ files = [p \in Paths |-> NoFile]
    /\ pc = "idle"
    /\ entry = "none"
    /\ args = NoArgs
    /\ i = 0
    /\ available_skus = {}
    /\ duplicate_report = <<>>
    /\ inv = InitInventory
    /\ stats = InitCostStats
    /\ costs_prices = <<>>
    /\ df_output = <<>>
    /\ columns = <<>>
    /\ log_messages = <<>>

CallCleanCode ==
    /\ pc = "idle"
    /\ entry = "none"
    /\ ret' = clean_code(arg)
    /\ entry' = "clean_code"
    /\ pc' = "done"
    /\ UNCHANGED << MCWS_MARKUP_TABLE, files, args, i, available_skus,
                    duplicate_report, inv, stats, costs_prices, df_output, columns,
                    log_messages, arg >>

CallCleanCodeAgain ==
    /\ pc = "done"
    /\ entry = "clean_code"
    /\ arg' = ret
    /\ ret' = clean_code(ret)
    /\ entry' = "clean_code(clean_code)"
    /\ UNCHANGED << MCWS_MARKUP_TABLE, files, pc, args, i, available_skus,
                    duplicate_report, inv, stats, costs_prices, df_output, columns,
                    log_messages >>

SpecClean == InitClean /\ [][CallCleanCode \/ CallCleanCodeAgain]_vars

\* ==========================================================================
\* A whole call, from a given table
\* ==========================================================================

\* the value process_inventory_v02 returns when it runs to its end with the
\* process-wide table holding `table` on entry: (df_output, all_stats,
\* duplicate_report), or the exception
logged_rows(rows, original_rows, table) ==
    [k \in DOMAIN rows |->
        [rows[k] EXCEPT !.log = change_log_of(rows[k].row, original_rows, table)]]

Result(df, st, cp, dup) ==
    [raised |-> FALSE, df_output |-> df,
     inventory |-> [total |-> st.total, updates_1 |-> st.updates_1,
                    updates_0 |-> st.updates_0],
     costs_prices |-> cp, duplicate_report |-> dup]

process_inventory_v02(table, fs, in) ==
    LET t1 == load_markup_table(table, fs[in.markup_file]).table
        dup == IF in.mcws_df.has_trademark
               THEN find_duplicate_codes_with_trademark_check(in.mcws_df.rows).duplicate_report
               ELSE <<>>
        available == add_bbr(add_mcws({}, in.mcws_df), in.bbr_df)
        st == reconcile_rows(InitInventory, in.shopify_df.rows, 1, available)
        t2 == IF t1 = EmptyTable
              THEN load_markup_table(t1, fs[DEFAULT_MARKUP_FILE]).table ELSE t1
        cp == cost_price_rows(InitCostStats, st.rows_output, 1, t2)
    IN  IF mcws_raises(in.mcws_df)
        THEN [raised |-> TRUE, df_output |-> <<>>,
              inventory |-> [total |-> 0, updates_1 |-> 0, updates_0 |-> 0],
              costs_prices |-> <<>>, duplicate_report |-> <<>>]
        ELSE IF ~in.shopify_df.has_sku THEN Result(<<>>, InitInventory, <<>>, dup)
        ELSE IF st.rows_output = <<>> THEN Result(<<>>, st, <<>>, dup)
        ELSE Result(filter_changed(logged_rows(cp.rows, in.shopify_df.rows, t2)),
                    st, <<cp.stats>>, dup)

\* what the running call has returned (pc = "done") or raised
Returned ==
    IF pc = "raised"
    THEN [raised |-> TRUE, df_output |-> <<>>,
          inventory |-> [total |-> 0, updates_1 |-> 0, updates_0 |-> 0],
          costs_prices |-> <<>>, duplicate_report |-> <<>>]
    ELSE Result(df_output, inv, costs_prices, duplicate_report)

\* ==========================================================================
\* Properties
\* ==========================================================================

InPipeline == entry = "process_inventory_v02"

TargetRowsNow == args.shopify_df.rows

HasSegment(log, kinds) == \E k \in DOMAIN log : log[k].seg \in kinds

QtyOrCost == {"QTY", "COST BBR", "COST MCWS"}

\* the first position of a normalized SKU in the target table
FirstIndexOf(sku) ==
    CHOOSE k \in DOMAIN TargetRowsNow :
        /\ clean_code(TargetRowsNow[k].sku) = sku
        /\ \A o \in DOMAIN TargetRowsNow :
              clean_code(TargetRowsNow[o].sku) = sku => k <= o

\* --------------------------------------------------------------------------
\* C1: every processed target row (non-empty normalized SKU, first
\* occurrence) gets exactly one of the four outcomes of the decision table:
\* (0, listed) sets qty to 1 and adds one to updates_1 only; (1, not listed)
\* sets qty to 0 and adds one to updates_0 only; (0, not listed) and
\* (1, listed) leave qty and both counters as they are.
\* --------------------------------------------------------------------------
C1_Processing ==
    /\ InPipeline
    /\ pc = "reconcile"
    /\ i <= Len(TargetRowsNow)
    /\ clean_code(TargetRowsNow[i].sku) # <<>>
    /\ clean_code(TargetRowsNow[i].sku) \notin inv.processed_skus

C1_Outcome ==
    LET row == TargetRowsNow[i]
        flag == current_logic(row)
        listed == clean_code(row.sku) \in available_skus
        out == inv'.rows_output[Len(inv'.rows_output)]
    IN  /\ Len(inv'.rows_output) = Len(inv.rows_output) + 1
        /\ out.idx = i - 1
        /\ (flag = 0 /\ listed) =>
              /\ out.row = [row EXCEPT !.qty = <<"1">>]
              /\ inv'.updates_1 = inv.updates_1 + 1
              /\ inv'.updates_0 = inv.updates_0
        /\ (flag = 1 /\ ~listed) =>
              /\ out.row = [row EXCEPT !.qty = <<"0">>]
              /\ inv'.updates_0 = inv.updates_0 + 1
              /\ inv'.updates_1 = inv.updates_1
        /\ ((flag = 0 /\ ~listed) \/ (flag = 1 /\ listed)) =>
              /\ out.row = row
              /\ inv'.updates_1 = inv.updates_1
              /\ inv'.updates_0 = inv.updates_0

C1_DecisionTable == [][C1_Processing => C1_Outcome]_vars

\* both changing outcomes have happened in one run
C1_Witness ==
    /\ InPipeline
    /\ pc = "reconcile"
    /\ inv.updates_1 = 1
    /\ inv.updates_0 = 1

\* --------------------------------------------------------------------------
\* C2: end to end, a target row with quantity 0 whose normalized SKU is in
\* the availability set gives a row of the final table for that SKU with
\* quantity 1 and a QTY: 0->1 (RIATTIVATO) segment in its change log.  Stated
\* for the row the reconciler processes, the first with its normalized SKU.
\* --------------------------------------------------------------------------
C2_IsZero(cell) == ~isna(cell) /\ py_float(cell) = [kind |-> "num", val |-> 0]

C2_Reactivated(sku) ==
    \E k \in DOMAIN df_output :
        /\ clean_code(df_output[k].row.sku) = sku
        /\ clean_numeric(df_output[k].row.qty, 0) = 100
        /\ \E n \in DOMAIN df_output[k].log :
              df_output[k].log[n] = Segment("QTY", 0, 1, "RIATTIVATO", 0, <<>>)

C2_EndToEnd ==
    (InPipeline /\ pc = "done" /\ args.shopify_df.has_sku) =>
        \A k \in DOMAIN TargetRowsNow :
            LET sku == clean_code(TargetRowsNow[k].sku)
            IN  (/\ sku \in available_skus
                 /\ FirstIndexOf(sku) = k
                 /\ C2_IsZero(TargetRowsNow[k].qty))
                => C2_Reactivated(sku)

\* --------------------------------------------------------------------------
\* C3 (as stated): every row of the table add_change_log_column returns has
\* a non-empty change log with a QTY or a COST segment.
\* --------------------------------------------------------------------------
C3_AllQtyOrCost ==
    pc = "done" =>
        \A k \in DOMAIN df_output :
            df_output[k].log # <<>> /\ HasSegment(df_output[k].log, QtyOrCost)

\* --------------------------------------------------------------------------
\* C3 (amended): every row of the table add_change_log_column returns has a
\* non-empty change log that has a QTY or a COST segment, or is NUOVO
\* PRODOTTO for a row whose normalized SKU matches no row of the original
\* table; in a run of process_inventory_v02 every row matches, so the log
\* has a QTY or a COST segment.  A matched row without a QTY or COST delta
\* has its log reset to empty, whatever its PRICE delta, and is not returned.
\* --------------------------------------------------------------------------
C3_Matched(row) == clean_code(row.sku) \in original_by_sku_keys(TargetRowsNow)

C3_Kept(r) ==
    /\ r.log # <<>>
    /\ IF C3_Matched(r.row) THEN HasSegment(r.log, QtyOrCost)
       ELSE r.log = NUOVO_PRODOTTO /\ ~InPipeline

C3_NoDelta(row) ==
    LET original_row == original_by_sku(TargetRowsNow, clean_code(row.sku))
    IN  /\ clean_numeric(original_row.qty, 0) = clean_numeric(row.qty, 0)
        /\ clean_numeric(original_row.cost, 0) = clean_numeric(row.cost, 0)

C3_KeptRows ==
    /\ pc = "done" => \A k \in DOMAIN df_output : C3_Kept(df_output[k])
    /\ pc = "changelog" =>
          \A k \in 1..(i - 1) :
              /\ df_output[k].log # <<>> => C3_Kept(df_output[k])
              /\ (C3_Matched(df_output[k].row) /\ C3_NoDelta(df_output[k].row))
                    => df_output[k].log = <<>>

\* every row has its log: one with a price delta alone was reset, one with
\* a QTY segment is kept
C3_Witness ==
    /\ InPipeline
    /\ pc = "changelog"
    /\ i > Len(df_output)
    /\ \E k \in DOMAIN df_output :
          /\ df_output[k].log = <<>>
          /\ price_changes_of(original_by_sku(TargetRowsNow, clean_code(df_output[k].row.sku)),
                              df_output[k].row, MCWS_MARKUP_TABLE) # <<>>
    /\ \E k \in DOMAIN df_output : HasSegment(df_output[k].log, {"QTY"})

\* --------------------------------------------------------------------------
\* C4: a row is in the final table only if its quantity or its cost was
\* changed during the run: its quantity or cost cell differs from that cell
\* of the target row it was copied from.
\* --------------------------------------------------------------------------
C4_OnlyChangedRows ==
    (InPipeline /\ pc = "done") =>
        \A k \in DOMAIN df_output :
            LET copied == TargetRowsNow[df_output[k].idx + 1]
            IN  \/ df_output[k].row.qty # copied.qty
                \/ df_output[k].row.cost # copied.cost

\* --------------------------------------------------------------------------
\* C5: each normalized target SKU is processed at most once per run: the
\* working table and the final table hold at most one row per normalized
\* SKU, that row copies the first target row with that SKU (only its
\* quantity, cost and price cells may differ), and a later row with the same
\* normalized SKU changes nothing but the total-row counter.
\* --------------------------------------------------------------------------
C5_OnePerSku(rows) ==
    \A a, b \in DOMAIN rows :
        clean_code(rows[a].row.sku) = clean_code(rows[b].row.sku) => a = b

C5_FromFirst(rows) ==
    \A a \in DOMAIN rows :
        LET sku == clean_code(rows[a].row.sku)
            first == TargetRowsNow[rows[a].idx + 1]
        IN  /\ sku # <<>>
            /\ rows[a].idx + 1 = FirstIndexOf(sku)
            /\ [rows[a].row EXCEPT !.qty = first.qty, !.cost = first.cost,
                                   !.price = first.price] = first

C5_Tables ==
    InPipeline =>
        /\ C5_OnePerSku(inv.rows_output) /\ C5_FromFirst(inv.rows_output)
        /\ C5_OnePerSku(df_output) /\ C5_FromFirst(df_output)

C5_LaterRow ==
    /\ InPipeline
    /\ pc = "reconcile"
    /\ i <= Len(TargetRowsNow)
    /\ clean_code(TargetRowsNow[i].sku) # <<>>
    /\ FirstIndexOf(clean_code(TargetRowsNow[i].sku)) < i

C5_ProcessedOnce ==
    /\ []C5_Tables
    /\ [][C5_LaterRow => inv' = [inv EXCEPT !.total = @ + 1]]_vars

\* two target rows with the same normalized SKU and different cells have
\* been read, and one row was carried into the working table
C5_Witness ==
    /\ InPipeline
    /\ pc = "reconcile"
    /\ i = 3
    /\ inv.total = 2
    /\ Len(inv.rows_output) = 1
    /\ clean_code(TargetRowsNow[1].sku) = clean_code(TargetRowsNow[2].sku)
    /\ TargetRowsNow[1].qty # TargetRowsNow[2].qty

\* --------------------------------------------------------------------------
\* C6: the reconciler is idempotent: run again on the rows it produced, with
\* the same availability set, it counts no activation and no deactivation
\* and changes no quantity.
\* --------------------------------------------------------------------------
C6_Produced == [k \in DOMAIN inv.rows_output |-> inv.rows_output[k].row]

C6_Idempotent ==
    (InPipeline /\ pc = "reconcile" /\ i > Len(TargetRowsNow)) =>
        LET again == reconcile_rows(InitInventory, C6_Produced, 1, available_skus)
        IN  /\ again.updates_1 = 0
            /\ again.updates_0 = 0
            /\ Len(again.rows_output) = Len(C6_Produced)
            /\ \A k \in DOMAIN C6_Produced :
                  again.rows_output[k].row.qty = C6_Produced[k].qty

\* the first pass activated one row and deactivated another
C6_Witness ==
    /\ InPipeline
    /\ pc = "reconcile"
    /\ i > Len(TargetRowsNow)
    /\ inv.updates_1 = 1
    /\ inv.updates_0 = 1

\* --------------------------------------------------------------------------
\* C7: with a trademark column, a supplier-A row gives its codes to the
\* availability set only if its normalized trademark is in the valid list,
\* alike for the 'Our Code' and the 'Code' column; without the column every
\* non-empty normalized code of both columns is accepted.
\* --------------------------------------------------------------------------
C7_RowAccepted(mcws, k) ==
    ~mcws.has_trademark
    \/ InList(clean_trademark(mcws.rows[k].trademark), VALID_TRADEMARKS)

C7_Accepted(mcws) ==
    ( (IF mcws.has_our_code
       THEN { clean_code(mcws.rows[k].our_code) :
                k \in { n \in DOMAIN mcws.rows : C7_RowAccepted(mcws, n) } }
       ELSE {})
      \cup
      (IF mcws.has_code
       THEN { clean_code(mcws.rows[k].code) :
                k \in { n \in DOMAIN mcws.rows : C7_RowAccepted(mcws, n) } }
       ELSE {}) ) \ { <<>> }

C7_TrademarkFilter ==
    (InPipeline /\ pc = "bbr") => available_skus = C7_Accepted(args.mcws_df)

\* a table with a trademark column, one row accepted and one row refused
\* that has a code in each column
C7_Witness ==
    /\ InPipeline
    /\ pc = "bbr"
    /\ args.mcws_df.has_trademark
    /\ args.mcws_df.has_our_code
    /\ args.mcws_df.has_code
    /\ available_skus # {}
    /\ \E k \in DOMAIN args.mcws_df.rows :
          /\ ~InList(clean_trademark(args.mcws_df.rows[k].trademark), VALID_TRADEMARKS)
          /\ clean_code(args.mcws_df.rows[k].our_code) # <<>>
          /\ clean_code(args.mcws_df.rows[k].code) # <<>>
          /\ clean_code(args.mcws_df.rows[k].our_code) \notin available_skus

\* --------------------------------------------------------------------------
\* C8: the builder only adds codes; the set it ends with is the union of the
\* codes accepted from supplier A and from supplier B, the same set as with
\* supplier B taken first; no later stage of the run changes the set.
\* --------------------------------------------------------------------------
C8_Built == pc \in {"compare", "reconcile", "costs", "changelog", "done"}

C8_Union ==
    (InPipeline /\ C8_Built) =>
        /\ available_skus = add_mcws({}, args.mcws_df) \cup add_bbr({}, args.bbr_df)
        /\ available_skus = add_mcws(add_bbr({}, args.bbr_df), args.mcws_df)

C8_OnlyAdds ==
    (InPipeline /\ pc \in {"mcws", "bbr"}) => available_skus \subseteq available_skus'

C8_Frozen == (InPipeline /\ C8_Built) => available_skus' = available_skus

C8_AvailabilityUnion ==
    /\ []C8_Union
    /\ [][C8_OnlyAdds]_vars
    /\ [][C8_Frozen]_vars

\* both suppliers gave a code the other did not
C8_Witness ==
    /\ InPipeline
    /\ pc = "compare"
    /\ add_mcws({}, args.mcws_df) \ add_bbr({}, args.bbr_df) # {}
    /\ add_bbr({}, args.bbr_df) \ add_mcws({}, args.mcws_df) # {}

\* --------------------------------------------------------------------------
\* C9: when the markup side file is missing, load_markup_table returns an
\* empty mapping, the run ends without raising, price_updates_mcws is 0, no
\* MCWS row's price is changed and the brand of every MCWS row is in
\* missing_markup_brands - in any run, also after an earlier run and also
\* with a file at the default path.
\* --------------------------------------------------------------------------
C9_FileMissing == ~files[args.markup_file].exists

C9_MissingMarkupFile ==
    (InPipeline /\ C9_FileMissing) =>
        /\ load_markup_table(MCWS_MARKUP_TABLE, files[args.markup_file]).ret = EmptyTable
        /\ pc # "raised"
        /\ stats.price_updates_mcws = 0
        /\ (pc = "changelog" =>
              \A k \in DOMAIN df_output :
                  identify_product_source(df_output[k].row) = "MCWS" =>
                      /\ df_output[k].row.price = TargetRowsNow[df_output[k].idx + 1].price
                      /\ extract_brand_from_tags(df_output[k].row.tags)
                            \in stats.missing_markup_brands \cup { <<>> })

\* --------------------------------------------------------------------------
\* C10: a run is stateless: what a call returns (table, statistics,
\* duplicate report) is what the same call returns in a process that made no
\* earlier call, whatever the earlier calls were given.
\* --------------------------------------------------------------------------
C10_Stateless ==
    (InPipeline /\ pc \in {"done", "raised"}) =>
        Returned = process_inventory_v02(EmptyTable, files, args)

\* --------------------------------------------------------------------------
\* C11: when the target table lacks the SKU column, process_inventory_v02
\* does not raise: it returns an empty table, the counters total, updates_1
\* and updates_0 at 0 and a log with an error line naming the missing column;
\* no reconciliation, cost/price or change-log step runs.
\* --------------------------------------------------------------------------
C11_ErrorLine ==
    [msg |-> "ERRORE: Colonna 'Variant SKU' mancante nel file Shopify",
     n |-> <<>>, names |-> {}]

C11_MissingSkuColumn ==
    (InPipeline /\ ~args.shopify_df.has_sku) =>
        /\ pc \notin {"raised", "reconcile", "costs", "changelog"}
        /\ pc = "done" =>
              /\ df_output = <<>>
              /\ columns = <<>>
              /\ inv.total = 0 /\ inv.updates_1 = 0 /\ inv.updates_0 = 0
              /\ inv.rows_output = <<>>
              /\ costs_prices = <<>>
              /\ \E k \in DOMAIN log_messages : log_messages[k] = C11_ErrorLine

\* --------------------------------------------------------------------------
\* C12: for every target table with the SKU column and every content of the
\* supplier tables (a supplier-A table with a trademark column and without
\* one or both code columns included), process_inventory_v02 returns a
\* result and never raises.
\* --------------------------------------------------------------------------
C12_NeverRaises ==
    (InPipeline /\ args.shopify_df.has_sku) => pc # "raised"

\* --------------------------------------------------------------------------
\* C13: the table the run returns after the change-log filter has exactly
\* the columns of the target table, in the same order, plus one appended
\* change-log column; the run adds no other column.
\* --------------------------------------------------------------------------
C13_SameColumns ==
    (InPipeline /\ pc = "done" /\ costs_prices # <<>>) =>
        columns = args.shopify_df.columns \o <<"Change Log">>

\* --------------------------------------------------------------------------
\* C14: every value load_markup_table stores in the markup table is a
\* positive multiplier, also for rows whose markup cell is empty, missing or
\* no number; no later step of the run changes the table.
\* --------------------------------------------------------------------------
C14_PositiveMarkups ==
    \A b \in DOMAIN MCWS_MARKUP_TABLE : MCWS_MARKUP_TABLE[b] > 0

\* --------------------------------------------------------------------------
\* C15: clean_code is idempotent and gives a normal form: clean_code of its
\* result is that result, the result has only characters of A-Z and 0-9 and
\* does not start with 0 (it may be empty); so raw codes that differ only in
\* case, punctuation, surrounding whitespace or leading zeros get the same
\* normalized code, hence the same membership in the availability set.
\* --------------------------------------------------------------------------
C15_Spellings(x) ==
    IF isna(x) THEN { x }
    ELSE { x, upper(x), lower(x), <<" ">> \o x \o <<" ">>, <<"0">> \o x,
           <<"-">> \o x, x \o <<"-">>, remove(x, "-") }

C15_NormalForm ==
    /\ (entry = "clean_code" /\ pc = "done") =>
          /\ \A k \in DOMAIN ret : ret[k] \in Range(UpperLetters) \cup Range(DigitChars)
          /\ ret = <<>> \/ ret[1] # "0"
          /\ clean_code(ret) = ret
          /\ \A y \in C15_Spellings(arg) : clean_code(y) = ret
    /\ entry = "clean_code(clean_code)" => ret = arg

\* a raw code with a leading zero, a lower-case letter and a hyphen
C15_Witness ==
    /\ entry = "clean_code"
    /\ pc = "done"
    /\ arg = <<"0", "k", "-", "7">>
    /\ ret = <<"K", "7">>

\* --------------------------------------------------------------------------
\* C16: identify_product_source follows the stated precedence for every row:
\* a positive supplier-B cost field gives BBR; otherwise a positive net-price
\* field gives MCWS; otherwise a positive existing cost together with a brand
\* found in the tags gives an inferred BBR or MCWS; in every other case, a
\* positive existing cost with no brand in the tags included, the row is
\* UNKNOWN: it is counted in total_unknown and its cost and price are left
\* unchanged by the cost/price engine.
\* --------------------------------------------------------------------------
C16_StatedSource(row) ==
    IF clean_numeric(row.costo_bbr, 0) > 0 THEN "BBR"
    ELSE IF clean_numeric(row.net_price, 0) > 0 THEN "MCWS"
    ELSE IF /\ clean_numeric(row.cost, 0) > 0
            /\ extract_brand_from_tags(row.tags) # <<>>
    THEN (IF is_bbr_brand(extract_brand_from_tags(row.tags)) THEN "BBR" ELSE "MCWS")
    ELSE "UNKNOWN"

C16_Counted(source) ==
    /\ stats'.total_bbr = stats.total_bbr + (IF source = "BBR" THEN 1 ELSE 0)
    /\ stats'.total_mcws = stats.total_mcws + (IF source = "MCWS" THEN 1 ELSE 0)
    /\ stats'.total_unknown = stats.total_unknown + (IF source = "UNKNOWN" THEN 1 ELSE 0)

C16_SourcePrecedence ==
    [][(pc = "costs" /\ i <= Len(df_output) /\ i' = i + 1) =>
          /\ identify_product_source(df_output[i].row) = C16_StatedSource(df_output[i].row)
          /\ C16_Counted(C16_StatedSource(df_output[i].row))
          /\ C16_StatedSource(df_output[i].row) = "UNKNOWN" =>
                 df_output'[i].row = df_output[i].row]_vars

\* --------------------------------------------------------------------------
\* C17: after process_costs_and_prices, every row attributed to BBR whose
\* supplier-B cost field is positive has that cost, and every row attributed
\* to MCWS whose net-price field is positive has the net price as its cost;
\* the cost field is overwritten, and the cost-update counter of the source
\* incremented by one, exactly when the supplier value is positive and
\* differs from the current cost, and is left unchanged otherwise.
\* --------------------------------------------------------------------------
C17_SupplierValue(row) ==
    IF identify_product_source(row) = "BBR" THEN clean_numeric(row.costo_bbr, 0)
    ELSE IF identify_product_source(row) = "MCWS" THEN clean_numeric(row.net_price, 0)
    ELSE 0

C17_CostUpdates(st, source) ==
    IF source = "BBR" THEN st.cost_updates_bbr
    ELSE IF source = "MCWS" THEN st.cost_updates_mcws
    ELSE 0

C17_Overwritten(row) ==
    /\ C17_SupplierValue(row) > 0
    /\ clean_numeric(row.cost, 0) # C17_SupplierValue(row)

C17_RowStep(row, row2) ==
    /\ IF C17_Overwritten(row)
       THEN /\ row2.cost = str_float(C17_SupplierValue(row))
            /\ row2.cost # row.cost
            /\ C17_CostUpdates(stats', identify_product_source(row))
                   = C17_CostUpdates(stats, identify_product_source(row)) + 1
       ELSE /\ row2.cost = row.cost
            /\ C17_CostUpdates(stats', identify_product_source(row))
                   = C17_CostUpdates(stats, identify_product_source(row))
    /\ identify_product_source(row) # "BBR" => stats'.cost_updates_bbr = stats.cost_updates_bbr
    /\ identify_product_source(row) # "MCWS" => stats'.cost_updates_mcws = stats.cost_updates_mcws

C17_CostStep ==
    /\ []((pc = "changelog" /\ entry = "process_inventory_v02") =>
             \A k \in DOMAIN df_output :
                 C17_SupplierValue(df_output[k].row) > 0 =>
                     clean_numeric(df_output[k].row.cost, 0)
                         = C17_SupplierValue(df_output[k].row))
    /\ [][(pc = "costs" /\ i <= Len(df_output) /\ i' = i + 1) =>
             /\ C17_RowStep(df_output[i].row, df_output'[i].row)
             /\ \A k \in DOMAIN df_output : k # i => df_output'[k] = df_output[k]]_vars

\* the engine has run over a table where one row's cost was taken from its
\* supplier and another row already had its supplier's cost
C17_Witness ==
    /\ pc = "changelog"
    /\ entry = "process_inventory_v02"
    /\ costs_prices # <<>>
    /\ costs_prices[1].cost_updates_bbr + costs_prices[1].cost_updates_mcws = 1
    /\ \E k \in DOMAIN df_output :
           /\ C17_SupplierValue(df_output[k].row) > 0
           /\ df_output[k].row.cost = str_float(C17_SupplierValue(df_output[k].row))
    /\ \E k \in DOMAIN df_output :
           /\ C17_SupplierValue(df_output[k].row) > 0
           /\ df_output[k].row.cost # str_float(C17_SupplierValue(df_output[k].row))

\* --------------------------------------------------------------------------
\* C18: after process_costs_and_prices, every row attributed to BBR has price
\* round(cost * 1.75, 2), cost being the row's cost after the cost step; the
\* price is overwritten, and price_updates_bbr incremented, exactly when the
\* current price differs from that target, whether or not the cost changed
\* in this run.
\* --------------------------------------------------------------------------
C18_Target(row2) == round2(clean_numeric(row2.cost, 0), BBR_MARKUP)

C18_RowStep(row, row2) ==
    IF identify_product_source(row) = "BBR"
    THEN /\ clean_numeric(row2.price, 0) = C18_Target(row2)
         /\ IF clean_numeric(row.price, 0) # C18_Target(row2)
            THEN /\ row2.price = str_float(C18_Target(row2))
                 /\ stats'.price_updates_bbr = stats.price_updates_bbr + 1
            ELSE /\ row2.price = row.price
                 /\ stats'.price_updates_bbr = stats.price_updates_bbr
    ELSE stats'.price_updates_bbr = stats.price_updates_bbr

C18_BbrPrice ==
    /\ []((pc = "changelog" /\ entry = "process_inventory_v02") =>
             \A k \in DOMAIN df_output :
                 identify_product_source(df_output[k].row) = "BBR" =>
                     clean_numeric(df_output[k].row.price, 0)
                         = round2(clean_numeric(df_output[k].row.cost, 0), BBR_MARKUP))
    /\ [][(pc = "costs" /\ i <= Len(df_output) /\ i' = i + 1) =>
             C18_RowStep(df_output[i].row, df_output'[i].row)]_vars

\* the engine has rewritten the price of a BBR row whose cost it left alone
C18_Witness ==
    /\ pc = "changelog"
    /\ entry = "process_inventory_v02"
    /\ costs_prices # <<>>
    /\ costs_prices[1].total_bbr >= 1
    /\ costs_prices[1].cost_updates_bbr = 0
    /\ costs_prices[1].price_updates_bbr = 1
    /\ \E k \in DOMAIN df_output :
           /\ identify_product_source(df_output[k].row) = "BBR"
           /\ df_output[k].row.price = <<"1", "4", ".", "0">>

\* --------------------------------------------------------------------------
\* C19: for every row attributed to MCWS the brand extracted from the tags is
\* looked up in the markup table loaded from the side file: if the brand has
\* an entry, after the engine the price is round(cost * markup, 2)
\* (overwritten only when different, incrementing price_updates_mcws); if it
\* has none, the price is left unchanged and the brand is recorded in
\* missing_markup_brands. A brand the side file lists is found for every
\* brand of the valid-trademark list, also one whose name has a space or a
\* hyphen.
\* --------------------------------------------------------------------------
\* the entries of the table that name the brand, a space and a hyphen alike
C19_Entries(brand, table) ==
    { k \in DOMAIN table : replace(k, " ", "-") = replace(upper(brand), " ", "-") }

C19_Found(row, row2, markup) ==
    /\ clean_numeric(row2.price, 0) = round2(clean_numeric(row2.cost, 0), markup)
    /\ IF clean_numeric(row.price, 0) # round2(clean_numeric(row2.cost, 0), markup)
       THEN /\ row2.price = str_float(round2(clean_numeric(row2.cost, 0), markup))
            /\ stats'.price_updates_mcws = stats.price_updates_mcws + 1
       ELSE /\ row2.price = row.price
            /\ stats'.price_updates_mcws = stats.price_updates_mcws
    /\ stats'.missing_markup_brands = stats.missing_markup_brands

C19_NotFound(row, row2, brand) ==
    /\ row2.price = row.price
    /\ stats'.price_updates_mcws = stats.price_updates_mcws
    /\ stats'.missing_markup_brands =
           stats.missing_markup_brands \cup (IF brand # <<>> THEN {brand} ELSE {})

C19_RowStep(row, row2, brand, table) ==
    IF C19_Entries(brand, table) # {}
    THEN \E k \in C19_Entries(brand, table) : C19_Found(row, row2, table[k])
    ELSE C19_NotFound(row, row2, brand)

C19_BrandLookup ==
    [][(/\ pc = "costs" /\ i <= Len(df_output) /\ i' = i + 1
        /\ identify_product_source(df_output[i].row) = "MCWS") =>
          C19_RowStep(df_output[i].row, df_output'[i].row,
                      extract_brand_from_tags(df_output[i].row.tags),
                      MCWS_MARKUP_TABLE)]_vars

\* --------------------------------------------------------------------------
\* C20: a row of supplier B contributes its non-empty normalized code to the
\* availability set unless the quantity column exists and the row's quantity
\* parses (a comma read as the decimal point) to a value less than or equal
\* to 0; a row whose quantity cell cannot be parsed is treated as available,
\* and when the quantity column is absent every row contributes its code.
\* --------------------------------------------------------------------------
C20_ParsesNotPositive(qty) ==
    /\ ~isna(qty)
    /\ py_float(replace(qty, ",", ".")).kind = "num"
    /\ py_float(replace(qty, ",", ".")).val <= 0

C20_Contributions(bbr) ==
    { clean_code(bbr.rows[k].sku) : k \in
        { j \in DOMAIN bbr.rows :
            /\ clean_code(bbr.rows[j].sku) # <<>>
            /\ ~(bbr.has_qty /\ C20_ParsesNotPositive(bbr.rows[j].qty)) } }

C20_SupplierBRows ==
    [][(InPipeline /\ pc = "bbr" /\ pc' = "compare" /\ args.bbr_df.has_sku) =>
          available_skus' = available_skus \cup C20_Contributions(args.bbr_df)]_vars

\* a row whose quantity is no number has given a code supplier A did not
C20_Witness ==
    /\ InPipeline
    /\ pc = "compare"
    /\ args.bbr_df.has_sku
    /\ args.bbr_df.has_qty
    /\ args.bbr_df.rows = << BbrRow(<<"A","B","9","9">>, <<"n","/","a">>) >>
    /\ <<"A","B","9","9">> \in available_skus
    /\ <<"A","B","9","9">> \notin add_mcws({}, args.mcws_df)

\* --------------------------------------------------------------------------
\* C21: find_duplicate_codes_with_trademark_check returns a report with
\* exactly one entry per supplier-A row whose non-empty normalized code occurs
\* in two or more rows, and none for a row whose normalized code is empty or
\* unique; each entry carries the normalized code, the row's index plus one,
\* the normalized trademark and a validity flag equal to membership of that
\* trademark in the valid list, so a row with an invalid trademark is still
\* reported when its code collides; the returned valid-row list is exactly
\* the reported rows whose flag is true.
\* --------------------------------------------------------------------------
\* the 1-based positions of the rows whose code collides with another row's
C21_Colliding(rows) ==
    { k \in DOMAIN rows :
        /\ clean_code(rows[k].our_code) # <<>>
        /\ \E j \in DOMAIN rows :
               j # k /\ clean_code(rows[j].our_code) = clean_code(rows[k].our_code) }

C21_EntryOf(rows, k) ==
    [Code |-> clean_code(rows[k].our_code), Row_Index |-> k,
     Trademark |-> clean_trademark(rows[k].trademark),
     Is_Valid_Trademark |->
         \E t \in DOMAIN VALID_TRADEMARKS :
             VALID_TRADEMARKS[t] = clean_trademark(rows[k].trademark)]

C21_Report(rows, report, valid) ==
    /\ Len(report) = Cardinality(C21_Colliding(rows))
    /\ \A k \in C21_Colliding(rows) :
           \E n \in DOMAIN report : report[n] = C21_EntryOf(rows, k)
    /\ \A n \in DOMAIN report : report[n].Row_Index \in C21_Colliding(rows)
    /\ Len(valid) = Cardinality({ n \in DOMAIN report : report[n].Is_Valid_Trademark })
    /\ { valid[n] : n \in DOMAIN valid }
           = { report[n].Row_Index - 1 :
                   n \in { m \in DOMAIN report : report[m].Is_Valid_Trademark } }

C21_Called ==
    /\ InPipeline
    /\ pc \notin {"idle", "load_markup", "mcws", "raised"}
    /\ args.mcws_df.has_trademark

C21_DuplicateReport ==
    C21_Called =>
        /\ duplicate_report
               = find_duplicate_codes_with_trademark_check(args.mcws_df.rows).duplicate_report
        /\ C21_Report(args.mcws_df.rows, duplicate_report,
                      find_duplicate_codes_with_trademark_check(args.mcws_df.rows)
                          .valid_trademark_rows)

\* two rows share the code K001, one of a valid and one of an invalid trademark
C21_Witness ==
    /\ C21_Called
    /\ Len(duplicate_report) = 2
    /\ \A n \in DOMAIN duplicate_report : duplicate_report[n].Code = <<"K","0","0","1">>
    /\ \E n \in DOMAIN duplicate_report : duplicate_report[n].Is_Valid_Trademark
    /\ \E n \in DOMAIN duplicate_report : ~duplicate_report[n].Is_Valid_Trademark

\* --------------------------------------------------------------------------
\* C22: the inventory counters agree with the emitted update file: in every
\* run of process_inventory_v02 each row counted in updates_1 or updates_0 is
\* in the final output table with a QTY segment in its change log, so
\* updates_1 + updates_0 is the number of output rows whose log has a QTY
\* segment, for any quantity cell text, a decimal comma included.
\* --------------------------------------------------------------------------
C22_QtyRows == { k \in DOMAIN df_output : HasSegment(df_output[k].log, {"QTY"}) }

C22_CountersAgree ==
    (InPipeline /\ pc = "done") =>
        inv.updates_1 + inv.updates_0 = Cardinality(C22_QtyRows)

=============================================================================
